---------------------------- MODULE Spec2Model ----------------------------
(***************************************************************************)
(* A model of the wallet cores of this repository:                         *)
(*   - the PSBT codec of src/script/sign.h                                 *)
(*     (PartiallySignedTransaction::Serialize / ::Unserialize),            *)
(*   - the coin selectors of src/wallet/coinselection.cpp                  *)
(*     (SelectCoinsBnB, KnapsackSolver, ApproximateBestSubset),            *)
(*   - the Berkeley database environments of src/wallet/db.cpp             *)
(*     (GetWalletEnv, BerkeleyEnvironment, BerkeleyDatabase, BerkeleyBatch)*)
(*     as used by several threads.                                         *)
(* Bytes are the numbers 0..255 and a stream is a sequence of bytes.       *)
(***************************************************************************)
EXTENDS Integers, Sequences, FiniteSets, TLC

VARIABLES
    \* ---- PSBT codec: the stream and the reader's locals
    s,              \* the unread bytes of the stream that are known so far
    closed,         \* TRUE when no byte follows those of s
    fed,            \* <<records, separators>> appended to the stream after Init
    status,         \* "magic", "running", "ok" (returned), "fail" (threw), "idle"
    err,            \* the exception's message when status = "fail"
    orig,           \* <<x>> when the stream is Serialize(x), <<>> otherwise
    head,           \* the first five bytes the stream started with
    in_globals, separators, input,
    \* ---- PSBT codec: the fields of the PartiallySignedTransaction read into
    tx, redeem_scripts, witness_scripts, inputs, unknown, hd_keypaths,
    num_ins, use_in_index,
    nrecords,       \* loop iterations of Unserialize that read a key-value record
    \* ---- the parameters SelectCoinsBnB and KnapsackSolver have in common
    utxo_pool, out_set, value_ret,
    \* ---- SelectCoinsBnB: parameters and locals
    target_value, cost_of_change, not_input_fees,
    actual_target, curr_value, curr_available_value, curr_waste,
    curr_selection, best_selection, best_waste, depth, tries,
    bnb_pc,         \* "idle", "call", "loop", "end", "true", "false", "throw"
    \* ---- KnapsackSolver and ApproximateBestSubset: parameters and locals
    nTargetValue, vValue, nTotalLower,
    coinLowestLarger,   \* <<coin>> when engaged, <<>> otherwise
    approxTarget,       \* the nTargetValue of the running ApproximateBestSubset
    vfBest, nBest, nRep,
    knap_pc,        \* "idle", "call", "approx1", "approx2", "true", "false"
    \* ---- wallet/db.cpp: the mutex, the environments, the databases, the threads
    cs_db,          \* the thread that holds the mutex, 0 when no thread does
    g_dbenvs,       \* the environment the weak_ptr of the directory's entry was
                    \* made from, 0 when the map has no entry for the directory
    use_count,      \* [environment -> the number of shared_ptr that own it]
    env_life,       \* [environment -> "none", "live" (made, destructor not finished)
                    \* or "gone"]
    fDbEnvInit,     \* [environment -> BOOLEAN]
    m_databases,    \* [environment -> the databases registered in it]
    db_env,         \* [database -> the environment its env points to, 0 when the
                    \* database object does not exist]
    m_refcount,     \* [database -> Int]
    m_db,           \* [database -> TRUE when the Db handle is open]
    m_active_txn,   \* [database -> "null", "active" (the pointer of a transaction
                    \* that was begun) or "aborted" (the pointer of a transaction
                    \* that has been aborted: it dangles)]
    db_pc,          \* [thread -> the statement the thread is at]
    db_local        \* [thread -> its locals: env, db, pdb, filenames, nRefCount,
                    \* caller, ret]

psbtVars == <<s, closed, fed, status, err, orig, head, in_globals, separators, input,
              tx, redeem_scripts, witness_scripts, inputs, unknown, hd_keypaths,
              num_ins, use_in_index, nrecords>>

selVars == <<utxo_pool, out_set, value_ret>>

bnbVars == <<target_value, cost_of_change, not_input_fees,
             actual_target, curr_value, curr_available_value, curr_waste,
             curr_selection, best_selection, best_waste, depth, tries, bnb_pc>>

knapVars == <<nTargetValue, vValue, nTotalLower, coinLowestLarger, approxTarget,
              vfBest, nBest, nRep, knap_pc>>

dbVars == <<cs_db, g_dbenvs, use_count, env_life, fDbEnvInit, m_databases, db_env,
            m_refcount, m_db, m_active_txn, db_pc, db_local>>

walletVars == <<selVars, bnbVars, knapVars, dbVars>>

vars == <<psbtVars, selVars, bnbVars, knapVars, dbVars>>

-----------------------------------------------------------------------------
(* Generic helpers                                                         *)

RECURSIVE SumSeq(_)
SumSeq(q) == IF q = <<>> THEN 0 ELSE Head(q) + SumSeq(Tail(q))

RECURSIVE Concat(_)
Concat(qq) == IF qq = <<>> THEN <<>> ELSE Head(qq) \o Concat(Tail(qq))

Take(q, n) == SubSeq(q, 1, n)
Drop(q, n) == SubSeq(q, n + 1, Len(q))

\* std::vector / memcmp ordering of byte strings (the order of the std::map keys)
RECURSIVE LexLess(_, _)
LexLess(a, b) ==
    IF b = <<>> THEN FALSE
    ELSE IF a = <<>> THEN TRUE
    ELSE IF Head(a) # Head(b) THEN Head(a) < Head(b)
    ELSE LexLess(Tail(a), Tail(b))

\* the keys of a std::map in iteration order
RECURSIVE SortedKeys(_)
SortedKeys(K) ==
    IF K = {} THEN <<>>
    ELSE LET m == CHOOSE k \in K : \A j \in K \ {k} : LexLess(k, j)
         IN  <<m>> \o SortedKeys(K \ {m})

EmptyMap == <<>>

\* std::map::emplace: inserts only when the key is absent
MapEmplace(m, k, v) ==
    IF k \in DOMAIN m THEN m
    ELSE [x \in (DOMAIN m) \cup {k} |-> IF x = k THEN v ELSE m[x]]

-----------------------------------------------------------------------------
(* Wire constants, src/script/sign.h:76-86                                 *)

PSBT_MAGIC_BYTES == <<112, 115, 98, 116>>    \* 0x74627370 written LSB first
PSBT_HEAD_BYTE == 255
PSBT_UNSIGNED_TX_NON_WITNESS_UTXO == 0
PSBT_REDEEMSCRIPT_WITNESS_UTXO == 1
PSBT_WITNESSSCRIPT_PARTIAL_SIG == 2
PSBT_BIP32_KEYPATH_SIGHASH == 3
PSBT_NUM_IN_VIN == 4
PSBT_SEPARATOR == 0

UINT160_SIZE == 20
UINT256_SIZE == 32
PUBLIC_KEY_SIZE == 65
COMPRESSED_PUBLIC_KEY_SIZE == 33

-----------------------------------------------------------------------------
(* Primitive encodings (serialize.h, hash.h, primitives/transaction.h of   *)
(* the host code base; the codec treats them as black boxes)               *)

\* Little-endian 32-bit integer <-> 4 bytes.  A value 2^31.. of an unsigned
\* field is carried as its two's complement, so the conversion stays exact.
LE32(v) ==
    LET lo == v % 16777216
        hi == (v - lo) \div 16777216
    IN  << lo % 256, (lo \div 256) % 256, lo \div 65536,
           IF hi < 0 THEN hi + 256 ELSE hi >>

ReadLE32(b) ==
    b[1] + 256 * b[2] + 65536 * b[3]
      + 16777216 * (IF b[4] >= 128 THEN b[4] - 256 ELSE b[4])

\* A uint64_t read from 8 bytes.  Values of 2^24 and more are all carried
\* as U64Big: the model only compares an index with small vector sizes.
U64Big == 16777216
ReadLE64(b) ==
    IF \A i \in 4..8 : b[i] = 0
    THEN b[1] + 256 * b[2] + 65536 * b[3]
    ELSE U64Big

MAX_SIZE == 33554432

\* WriteCompactSize
CompactSize(n) ==
    IF n < 253 THEN <<n>>
    ELSE IF n <= 65535 THEN <<253, n % 256, n \div 256>>
    ELSE <<254>> \o LE32(n)

\* ReadCompactSize: [st |-> "ok", v, rest] | [st |-> "eof"] | [st |-> "fail"]
ReadCompactSize(q) ==
    IF q = <<>> THEN [st |-> "eof", v |-> 0, rest |-> <<>>, err |-> ""]
    ELSE LET b == Head(q)
             r == Tail(q)
         IN  IF b < 253 THEN [st |-> "ok", v |-> b, rest |-> r, err |-> ""]
             ELSE IF b = 253 THEN
                 IF Len(r) < 2 THEN [st |-> "eof", v |-> 0, rest |-> <<>>, err |-> ""]
                 ELSE LET v == r[1] + 256 * r[2]
                      IN  IF v < 253
                          THEN [st |-> "fail", v |-> 0, rest |-> <<>>,
                                err |-> "non-canonical ReadCompactSize()"]
                          ELSE [st |-> "ok", v |-> v, rest |-> Drop(r, 2), err |-> ""]
             ELSE IF b = 254 THEN
                 IF Len(r) < 4 THEN [st |-> "eof", v |-> 0, rest |-> <<>>, err |-> ""]
                 ELSE IF r[4] = 0 /\ r[3] = 0
                      THEN [st |-> "fail", v |-> 0, rest |-> <<>>,
                            err |-> "non-canonical ReadCompactSize()"]
                      ELSE IF r[4] >= 128 \/ ReadLE32(Take(r, 4)) > MAX_SIZE
                           THEN [st |-> "fail", v |-> 0, rest |-> <<>>,
                                 err |-> "ReadCompactSize(): size too large"]
                           ELSE [st |-> "ok", v |-> ReadLE32(Take(r, 4)),
                                 rest |-> Drop(r, 4), err |-> ""]
             ELSE
                 IF Len(r) < 8 THEN [st |-> "eof", v |-> 0, rest |-> <<>>, err |-> ""]
                 ELSE IF \A i \in 5..8 : r[i] = 0
                      THEN [st |-> "fail", v |-> 0, rest |-> <<>>,
                            err |-> "non-canonical ReadCompactSize()"]
                      ELSE [st |-> "fail", v |-> 0, rest |-> <<>>,
                            err |-> "ReadCompactSize(): size too large"]

\* s << std::vector<unsigned char>: a length prefix and the bytes
SerVec(b) == CompactSize(Len(b)) \o b

\* A digest of n bytes standing for CHash160 (n = 20) and CSHA256 (n = 32):
\* a function of the bytes that changes when one byte is changed.
RECURSIVE Weighted(_, _)
Weighted(b, i) == IF b = <<>> THEN 0 ELSE i * Head(b) + Weighted(Tail(b), i + 1)
Checksum(b) == (Weighted(b, 1) + Len(b)) % 101
Digest(b, n) == [i \in 1..n |-> (Checksum(b) + i) % 128]
Hash160(b) == Digest(b, UINT160_SIZE)
SHA256(b) == Digest(b, UINT256_SIZE)

-----------------------------------------------------------------------------
(* Transactions and outputs, as far as the codec looks into them.  A       *)
(* prevout hash and an amount are one byte each.                           *)

NullTx == [vin |-> <<>>, nout |-> 0]
TxIsNull(t) == t.vin = <<>> /\ t.nout = 0

TxSer(t) ==
    CompactSize(Len(t.vin))
      \o Concat([i \in 1..Len(t.vin) |->
                   <<t.vin[i].prevout, IF t.vin[i].signed THEN 1 ELSE 0>>])
      \o <<t.nout>>

TxHash(t) == Checksum(TxSer(t))

\* s >> tx
ReadTx(q) ==
    LET c == ReadCompactSize(q)
    IN  IF c.st # "ok" THEN [st |-> c.st, v |-> NullTx, rest |-> <<>>, err |-> c.err]
        ELSE IF Len(c.rest) < 2 * c.v + 1
             THEN [st |-> "eof", v |-> NullTx, rest |-> <<>>, err |-> ""]
             ELSE [st |-> "ok",
                   v |-> [vin |-> [i \in 1..c.v |->
                                     [prevout |-> c.rest[2 * i - 1],
                                      signed |-> c.rest[2 * i] # 0]],
                          nout |-> c.rest[2 * c.v + 1]],
                   rest |-> Drop(c.rest, 2 * c.v + 1), err |-> ""]

NullTxOut == [nValue |-> -1, scriptPubKey |-> <<>>]
TxOutIsNull(o) == o.nValue = -1
TxOutSer(o) == <<o.nValue>> \o SerVec(o.scriptPubKey)

\* s >> vout
ReadTxOut(q) ==
    IF q = <<>> THEN [st |-> "eof", v |-> NullTxOut, rest |-> <<>>, err |-> ""]
    ELSE LET c == ReadCompactSize(Tail(q))
         IN  IF c.st # "ok"
             THEN [st |-> c.st, v |-> NullTxOut, rest |-> <<>>, err |-> c.err]
             ELSE IF Len(c.rest) < c.v
                  THEN [st |-> "eof", v |-> NullTxOut, rest |-> <<>>, err |-> ""]
                  ELSE [st |-> "ok",
                        v |-> [nValue |-> Head(q), scriptPubKey |-> Take(c.rest, c.v)],
                        rest |-> Drop(c.rest, c.v), err |-> ""]

-----------------------------------------------------------------------------
(* PartiallySignedInput, src/script/sign.h:98-111                          *)

NullInput ==
    [non_witness_utxo |-> <<>>,      \* CTransactionRef: <<>> is the null pointer
     witness_utxo |-> NullTxOut,
     partial_sigs |-> EmptyMap,
     unknown |-> EmptyMap,
     sighash_type |-> 0,
     index |-> 0,
     use_in_index |-> FALSE]

\* PartiallySignedInput::SetNull
SetNull(in) == NullInput

-----------------------------------------------------------------------------
(* PartiallySignedTransaction::Serialize, src/script/sign.h:128-217        *)

\* the records of a map of byte-string keys to byte-string values
SerUnknown(m) ==
    LET ks == SortedKeys(DOMAIN m)
    IN  Concat([i \in 1..Len(ks) |-> SerVec(ks[i]) \o SerVec(m[ks[i]])])

SerRedeemScripts(m) ==
    LET ks == SortedKeys(DOMAIN m)
    IN  Concat([i \in 1..Len(ks) |->
                  SerVec(<<PSBT_REDEEMSCRIPT_WITNESS_UTXO>> \o ks[i]) \o SerVec(m[ks[i]])])

SerWitnessScripts(m) ==
    LET ks == SortedKeys(DOMAIN m)
    IN  Concat([i \in 1..Len(ks) |->
                  SerVec(<<PSBT_WITNESSSCRIPT_PARTIAL_SIG>> \o ks[i]) \o SerVec(m[ks[i]])])

SerKeypaths(m) ==
    LET ks == SortedKeys(DOMAIN m)
    IN  Concat([i \in 1..Len(ks) |->
                  SerVec(<<PSBT_BIP32_KEYPATH_SIGHASH>> \o ks[i])
                    \o CompactSize(Len(m[ks[i]]) * 4)
                    \o Concat([j \in 1..Len(m[ks[i]]) |-> LE32(m[ks[i]][j])])])

SerPartialSigs(m) ==
    LET ks == SortedKeys(DOMAIN m)
    IN  Concat([i \in 1..Len(ks) |->
                  SerVec(<<PSBT_WITNESSSCRIPT_PARTIAL_SIG>> \o ks[i]) \o SerVec(m[ks[i]])])

SerInput(in, psbt_in, x_use_in_index) ==
    (IF ~in.signed
     THEN (IF psbt_in.non_witness_utxo # <<>>
           THEN SerVec(<<PSBT_UNSIGNED_TX_NON_WITNESS_UTXO>>)
                  \o SerVec(TxSer(psbt_in.non_witness_utxo[1]))
           ELSE IF ~TxOutIsNull(psbt_in.witness_utxo)
                THEN SerVec(<<PSBT_REDEEMSCRIPT_WITNESS_UTXO>>)
                       \o SerVec(TxOutSer(psbt_in.witness_utxo))
                ELSE <<>>)
          \o SerPartialSigs(psbt_in.partial_sigs)
          \o (IF psbt_in.sighash_type > 0
              THEN SerVec(<<PSBT_BIP32_KEYPATH_SIGHASH>>)
                     \o SerVec(LE32(psbt_in.sighash_type))
              ELSE <<>>)
          \o (IF x_use_in_index
              THEN SerVec(<<PSBT_NUM_IN_VIN>>) \o SerVec(CompactSize(psbt_in.index))
              ELSE <<>>)
     ELSE <<>>)
      \o SerUnknown(psbt_in.unknown)
      \o <<PSBT_SEPARATOR>>

Serialize(x) ==
    PSBT_MAGIC_BYTES \o <<PSBT_HEAD_BYTE>>
      \o (IF ~TxIsNull(x.tx)
          THEN SerVec(<<PSBT_UNSIGNED_TX_NON_WITNESS_UTXO>>) \o SerVec(TxSer(x.tx))
          ELSE <<>>)
      \o SerRedeemScripts(x.redeem_scripts)
      \o SerWitnessScripts(x.witness_scripts)
      \o SerKeypaths(x.hd_keypaths)
      \o (IF x.num_ins > 0
          THEN SerVec(<<PSBT_NUM_IN_VIN>>) \o SerVec(CompactSize(x.num_ins))
          ELSE <<>>)
      \o SerUnknown(x.unknown)
      \o <<PSBT_SEPARATOR>>
      \o Concat([i \in 1..Len(x.tx.vin) |->
                   SerInput(x.tx.vin[i], x.inputs[i], x.use_in_index)])

-----------------------------------------------------------------------------
(* PartiallySignedTransaction::Unserialize, src/script/sign.h:220-451      *)
(*                                                                         *)
(* One loop iteration is one step.  Each case of the switch is an operator *)
(* from the header of the record (key, value_len, the bytes after them) to *)
(* an outcome [st, err, rest, nxt]: st is "ok", "fail" (a throw), "eof"    *)
(* (the stream's read ran out of bytes, which throws when the stream has   *)
(* ended) or "wait" (the outcome depends on bytes not known yet); nxt is   *)
(* the object and the locals as the case leaves them, also when it throws. *)

Cur ==
    [in_globals |-> in_globals, separators |-> separators, input |-> input,
     tx |-> tx, redeem_scripts |-> redeem_scripts,
     witness_scripts |-> witness_scripts, inputs |-> inputs,
     unknown |-> unknown, hd_keypaths |-> hd_keypaths,
     num_ins |-> num_ins, use_in_index |-> use_in_index]

Ok(rest, nxt) == [st |-> "ok", err |-> "", rest |-> rest, nxt |-> nxt]
Fail(msg, nxt) == [st |-> "fail", err |-> msg, rest |-> <<>>, nxt |-> nxt]
\* the outcome of a read r that did not succeed
Unread(r, nxt) == [st |-> r.st, err |-> r.err, rest |-> <<>>, nxt |-> nxt]

\* s >> Span of n bytes
ReadBytes(q, n) ==
    IF Len(q) < n THEN [st |-> "eof", v |-> <<>>, rest |-> <<>>, err |-> ""]
    ELSE [st |-> "ok", v |-> Take(q, n), rest |-> Drop(q, n), err |-> ""]

\* CPubKey(begin, end): a key whose length does not fit its header byte is
\* invalid, and an invalid key holds no bytes
PubKeyLen(hdr) ==
    IF hdr \in {2, 3} THEN COMPRESSED_PUBLIC_KEY_SIZE
    ELSE IF hdr \in {4, 6, 7} THEN PUBLIC_KEY_SIZE
    ELSE 0
CPubKey(b) == IF b # <<>> /\ PubKeyLen(b[1]) = Len(b) THEN b ELSE <<>>

\* lines 246-287: key_len, the key and value_len
Header(q) ==
    LET kl == ReadCompactSize(q)
    IN  IF kl.st # "ok"
        THEN [st |-> kl.st, err |-> kl.err, key |-> <<>>, value_len |-> 0, rest |-> <<>>]
        ELSE IF kl.v = 0
        THEN [st |-> "sep", err |-> "", key |-> <<>>, value_len |-> 0, rest |-> kl.rest]
        ELSE LET k == ReadBytes(kl.rest, kl.v)
             IN  IF k.st # "ok"
                 THEN [st |-> k.st, err |-> "", key |-> <<>>, value_len |-> 0,
                       rest |-> <<>>]
                 ELSE LET vl == ReadCompactSize(k.rest)
                      IN  IF vl.st # "ok"
                          THEN [st |-> vl.st, err |-> vl.err, key |-> <<>>,
                                value_len |-> 0, rest |-> <<>>]
                          ELSE [st |-> "rec", err |-> "", key |-> k.v,
                                value_len |-> vl.v, rest |-> vl.rest]

\* lines 262-264 without the SetNull of line 263
PushInputKept(c) ==
    [c EXCEPT !.inputs = Append(inputs, input),
              !.input = [input EXCEPT !.index = separators - 1]]

\* lines 262-264: the input of the section that ends goes to the vector
PushInput(c) ==
    [c EXCEPT !.inputs = Append(inputs, input),
              !.input = [SetNull(input) EXCEPT !.index = separators - 1]]

\* lines 250-275
SeparatorCase(h) ==
    LET c0 == [Cur EXCEPT !.in_globals = FALSE]
    IN  IF separators > 0 /\ ~use_in_index /\ ~input.use_in_index
        THEN Fail("Input indexes being used but an input was provided without an index", c0)
        ELSE LET c1 == IF separators > 0 THEN PushInput(c0) ELSE c0
                 c2 == [c1 EXCEPT !.separators = separators + 1]
             IN  IF h.rest = <<>> /\ ~closed
                 THEN [st |-> "wait", err |-> "", rest |-> <<>>, nxt |-> c2]
                 ELSE IF h.rest = <<>> /\ c2.separators - 1 = num_ins
                      THEN Fail("Inputs provided does not match the number of inputs stated.", c2)
                      ELSE Ok(h.rest, c2)

\* lines 292-294
GlobalTxCase(h) ==
    LET r == ReadTx(h.rest)
    IN  IF r.st # "ok" THEN Unread(r, Cur)
        ELSE Ok(r.rest, [Cur EXCEPT !.tx = r.v])

\* lines 295-307.  tx.vin[input.index] with input.index past the end of
\* tx.vin reads outside the vector: ub is what that read then does.
UBOutcomes == {"crash", "equal", "differs"}
NonWitnessUtxoCase(h, ub) ==
    LET r == ReadTx(h.rest)
    IN  IF r.st # "ok" THEN Unread(r, Cur)
        ELSE IF input.index >= Len(tx.vin) /\ ub = "crash"
        THEN Fail("crash", Cur)
        ELSE IF (IF input.index < Len(tx.vin)
                 THEN tx.vin[input.index + 1].prevout # TxHash(r.v)
                 ELSE ub = "differs")
        THEN Fail("Provided non witness utxo does not match the required utxo for input", Cur)
        ELSE Ok(r.rest, [Cur EXCEPT !.input.non_witness_utxo = <<r.v>>])

\* lines 311-336 without the comparison of lines 331-333
RedeemScriptCaseUnchecked(h) ==
    IF Len(h.key) # UINT160_SIZE + 1
    THEN Fail("Size of key was not the expected size for the type redeem script", Cur)
    ELSE LET hash160 == Tail(h.key)
             r == ReadBytes(h.rest, h.value_len)
         IN  IF r.st # "ok" THEN Unread(r, Cur)
             ELSE Ok(r.rest, [Cur EXCEPT !.redeem_scripts =
                                  MapEmplace(redeem_scripts, hash160, r.v)])

\* lines 311-336
RedeemScriptCase(h) ==
    IF Len(h.key) # UINT160_SIZE + 1
    THEN Fail("Size of key was not the expected size for the type redeem script", Cur)
    ELSE LET hash160 == Tail(h.key)
             r == ReadBytes(h.rest, h.value_len)
         IN  IF r.st # "ok" THEN Unread(r, Cur)
             ELSE IF hash160 # Hash160(r.v)
             THEN Fail("Provided hash160 does not match the redeemscript's hash160", Cur)
             ELSE Ok(r.rest, [Cur EXCEPT !.redeem_scripts =
                                  MapEmplace(redeem_scripts, hash160, r.v)])

\* lines 337-344
WitnessUtxoCase(h) ==
    LET r == ReadTxOut(h.rest)
    IN  IF r.st # "ok" THEN Unread(r, Cur)
        ELSE Ok(r.rest, [Cur EXCEPT !.input.witness_utxo = r.v])

\* lines 348-373
WitnessScriptCase(h) ==
    IF Len(h.key) # UINT256_SIZE + 1
    THEN Fail("Size of key was not the expected size for the type witness script", Cur)
    ELSE LET hash == Tail(h.key)
             r == ReadBytes(h.rest, h.value_len)
         IN  IF r.st # "ok" THEN Unread(r, Cur)
             ELSE IF hash # SHA256(r.v)
             THEN Fail("Provided sha256 does not match the witnessscript's sha256", Cur)
             ELSE Ok(r.rest, [Cur EXCEPT !.witness_scripts =
                                  MapEmplace(witness_scripts, hash, r.v)])

\* lines 376 and 397 with every key of up to a public key's size let through
IsPubKeyKeyOrShorter(key) == Len(key) <= PUBLIC_KEY_SIZE + 1

\* lines 376 and 397: the key is a type byte and a public key of either size
IsPubKeyKey(key) ==
    Len(key) = PUBLIC_KEY_SIZE + 1 \/ Len(key) = COMPRESSED_PUBLIC_KEY_SIZE + 1

\* lines 374-390
PartialSigCase(h) ==
    IF ~IsPubKeyKey(h.key)
    THEN Fail("Size of key was not the expected size for the type partial signature pubkey", Cur)
    ELSE LET pubkey == CPubKey(Tail(h.key))
             r == ReadBytes(h.rest, h.value_len)
         IN  IF r.st # "ok" THEN Unread(r, Cur)
             ELSE Ok(r.rest, [Cur EXCEPT !.input.partial_sigs =
                                  MapEmplace(input.partial_sigs, pubkey, r.v)])

\* lines 403-409: one uint32_t per started group of 4 bytes of value_len
RECURSIVE ReadKeypath(_, _)
ReadKeypath(q, n) ==
    IF n <= 0 THEN [st |-> "ok", v |-> <<>>, rest |-> q, err |-> ""]
    ELSE IF Len(q) < 4 THEN [st |-> "eof", v |-> <<>>, rest |-> <<>>, err |-> ""]
    ELSE LET more == ReadKeypath(Drop(q, 4), n - 4)
         IN  IF more.st # "ok" THEN more
             ELSE [more EXCEPT !.v = <<ReadLE32(Take(q, 4))>> \o more.v]

\* lines 395-412
KeypathCase(h) ==
    IF ~IsPubKeyKey(h.key)
    THEN Fail("Size of key was not the expected size for the type BIP32 keypath", Cur)
    ELSE LET pubkey == CPubKey(Tail(h.key))
             r == ReadKeypath(h.rest, h.value_len)
         IN  IF r.st # "ok" THEN Unread(r, Cur)
             ELSE Ok(r.rest, [Cur EXCEPT !.hd_keypaths =
                                  MapEmplace(hd_keypaths, pubkey, r.v)])

\* lines 413-416
SighashCase(h) ==
    LET r == ReadBytes(h.rest, 4)
    IN  IF r.st # "ok" THEN Unread(r, Cur)
        ELSE Ok(r.rest, [Cur EXCEPT !.input.sighash_type = ReadLE32(r.v)])

\* lines 436-448, entered with the object and locals c and the unread bytes q
UnknownCase(h, q, c) ==
    LET r == ReadBytes(q, h.value_len)
    IN  IF r.st # "ok" THEN Unread(r, c)
        ELSE IF c.in_globals
             THEN Ok(r.rest, [c EXCEPT !.unknown = MapEmplace(c.unknown, h.key, r.v)])
             ELSE Ok(r.rest, [c EXCEPT !.input.unknown =
                                  MapEmplace(c.input.unknown, h.key, r.v)])

\* lines 420-423; the case has no break and runs on into the default case
NumInsCase(h) ==
    LET r == ReadCompactSize(h.rest)
    IN  IF r.st # "ok" THEN Unread(r, Cur)
        ELSE UnknownCase(h, r.rest, [Cur EXCEPT !.num_ins = r.v])

\* lines 424-433; the case has no break and runs on into the default case
InIndexCase(h) ==
    IF ~use_in_index /\ separators # 1
    THEN Fail("Input indexes being used but an input does not provide its index", Cur)
    ELSE LET r == ReadBytes(h.rest, 8)
         IN  IF r.st # "ok" THEN Unread(r, Cur)
             ELSE UnknownCase(h, r.rest,
                              [Cur EXCEPT !.input.index = ReadLE64(r.v),
                                          !.use_in_index = TRUE,
                                          !.input.use_in_index = TRUE])

\* the switch of lines 290-449 (and the separator test before it)
Dispatch(h, ub) ==
    IF h.st = "sep" THEN SeparatorCase(h)
    ELSE IF h.st # "rec" THEN [st |-> h.st, err |-> h.err, rest |-> <<>>, nxt |-> Cur]
    ELSE LET type == h.key[1]
         IN  IF type = PSBT_UNSIGNED_TX_NON_WITNESS_UTXO
             THEN (IF in_globals THEN GlobalTxCase(h) ELSE NonWitnessUtxoCase(h, ub))
             ELSE IF type = PSBT_REDEEMSCRIPT_WITNESS_UTXO
             THEN (IF in_globals THEN RedeemScriptCase(h) ELSE WitnessUtxoCase(h))
             ELSE IF type = PSBT_WITNESSSCRIPT_PARTIAL_SIG
             THEN (IF in_globals THEN WitnessScriptCase(h) ELSE PartialSigCase(h))
             ELSE IF type = PSBT_BIP32_KEYPATH_SIGHASH
             THEN (IF in_globals THEN KeypathCase(h) ELSE SighashCase(h))
             ELSE IF type = PSBT_NUM_IN_VIN
             THEN (IF in_globals THEN NumInsCase(h) ELSE InIndexCase(h))
             ELSE UnknownCase(h, h.rest, Cur)

-----------------------------------------------------------------------------
(* The inputs of the codec                                                 *)

MaxIns == 2         \* inputs of the unsigned transaction of a serialized PSBT
MaxRecs == 3        \* key-value records of a hand-made stream
MaxSeps == 3        \* separators of a hand-made stream

PrevTx(k) == [vin |-> <<[prevout |-> 100 + k, signed |-> TRUE]>>, nout |-> 1]

\* an unsigned transaction spending output 0 of PrevTx(1..n); with sg its
\* first input already carries a signature script
UnsignedTx(n, sg) ==
    [vin |-> [i \in 1..n |-> [prevout |-> TxHash(PrevTx(i)), signed |-> sg /\ i = 1]],
     nout |-> 1]

RedeemScript == <<81>>
WitnessScript == <<81, 82>>
PubKey33 == <<2>> \o [i \in 1..(COMPRESSED_PUBLIC_KEY_SIZE - 1) |-> i]
Signature == <<48, 6>>
Keypath == <<44, 1>>
UnknownKey == <<15, 1>>
UnknownValue == <<7>>
WitnessOut == [nValue |-> 5, scriptPubKey |-> <<0, 20>>]

OneEntry(k, v) == MapEmplace(EmptyMap, k, v)
Optional(m) == {EmptyMap, m}

\* The per-input states of input i (1-based) of a PSBT.  Every input of one
\* PSBT carries a partial signature with its sighash type (sigs), and an
\* unknown record (unk), or none does.
InputStates(i, x_use_in_index, sigs, unk) ==
    { [non_witness_utxo |-> u[1], witness_utxo |-> u[2],
       partial_sigs |-> IF sigs THEN OneEntry(PubKey33, Signature) ELSE EmptyMap,
       unknown |-> IF unk THEN OneEntry(UnknownKey, UnknownValue) ELSE EmptyMap,
       sighash_type |-> IF sigs THEN 1 ELSE 0,
       index |-> IF x_use_in_index THEN i - 1 ELSE 0,
       use_in_index |-> x_use_in_index] :
        u \in {<<<<>>, NullTxOut>>, <<<<PrevTx(i)>>, NullTxOut>>, <<<<>>, WitnessOut>>} }

RECURSIVE InputVectors(_, _, _, _)
InputVectors(n, x_use_in_index, sigs, unk) ==
    IF n = 0 THEN {<<>>}
    ELSE { Append(v, in) : v \in InputVectors(n - 1, x_use_in_index, sigs, unk),
                           in \in InputStates(n, x_use_in_index, sigs, unk) }

\* the unsigned transactions of the PSBTs that are serialized
Transactions == {NullTx} \cup {UnsignedTx(n, sg) : n \in 0..MaxIns, sg \in BOOLEAN}

\* The PartiallySignedTransaction objects that are serialized: inputs is as
\* long as tx.vin and the script maps are keyed by the hashes of the scripts.
IsPSBT(x) ==
    /\ x.tx \in Transactions
    /\ x.redeem_scripts \in Optional(OneEntry(Hash160(RedeemScript), RedeemScript))
    /\ x.witness_scripts \in Optional(OneEntry(SHA256(WitnessScript), WitnessScript))
    /\ x.hd_keypaths \in Optional(OneEntry(PubKey33, Keypath))
    /\ x.unknown \in Optional(OneEntry(UnknownKey, UnknownValue))
    /\ x.num_ins \in {0, Len(x.tx.vin)}
    /\ x.use_in_index \in BOOLEAN
    /\ \E sigs \in BOOLEAN :
         x.inputs \in InputVectors(Len(x.tx.vin), x.use_in_index, sigs,
                                   x.unknown # EmptyMap)

\* what the reader has before its first read
FreshObject ==
    /\ in_globals = TRUE /\ separators = 0 /\ input = NullInput
    /\ tx = NullTx /\ redeem_scripts = EmptyMap /\ witness_scripts = EmptyMap
    /\ inputs = <<>> /\ unknown = EmptyMap /\ hd_keypaths = EmptyMap
    /\ num_ins = 0 /\ use_in_index = FALSE

\* the 8 bytes of a uint64_t below 256
LE64(v) == <<v, 0, 0, 0, 0, 0, 0, 0>>

\* Key-value records a hand-made stream is put together from: those of its
\* global section and those of its input sections.  Beside the records as
\* Serialize writes them there are records with a value that does not hash
\* to its key and records with a key one byte short; the 0x04 records are laid out as Unserialize reads them (the
\* number right after a value_len of 0).
\* a key that lacks its last byte
ShortKey(key) == Take(key, Len(key) - 1)

GlobalRecords ==
    { SerVec(<<PSBT_UNSIGNED_TX_NON_WITNESS_UTXO>>)
        \o SerVec(TxSer(UnsignedTx(MaxIns, FALSE))) }
    \cup
    { SerVec(<<PSBT_REDEEMSCRIPT_WITNESS_UTXO>> \o Hash160(RedeemScript)) \o SerVec(v) :
        v \in {RedeemScript, <<82>>} }
    \cup
    { SerVec(<<PSBT_WITNESSSCRIPT_PARTIAL_SIG>> \o SHA256(WitnessScript)) \o SerVec(v) :
        v \in {WitnessScript, <<81, 83>>} }
    \cup
    { SerVec(<<PSBT_BIP32_KEYPATH_SIGHASH>> \o PubKey33)
        \o CompactSize(4 * Len(Keypath)) \o LE32(Keypath[1]) \o LE32(Keypath[2]),
      SerVec(UnknownKey) \o SerVec(UnknownValue) }
    \cup
    { SerVec(<<PSBT_NUM_IN_VIN>>) \o <<0>> \o CompactSize(n) : n \in 1..2 }
    \cup
    { SerVec(ShortKey(<<PSBT_REDEEMSCRIPT_WITNESS_UTXO>> \o Hash160(RedeemScript)))
        \o SerVec(RedeemScript),
      SerVec(ShortKey(<<PSBT_WITNESSSCRIPT_PARTIAL_SIG>> \o SHA256(WitnessScript)))
        \o SerVec(WitnessScript),
      SerVec(ShortKey(<<PSBT_BIP32_KEYPATH_SIGHASH>> \o PubKey33))
        \o CompactSize(4) \o LE32(Keypath[1]) }

InputRecords ==
    { SerVec(<<PSBT_UNSIGNED_TX_NON_WITNESS_UTXO>>) \o SerVec(TxSer(PrevTx(k))) :
        k \in 1..2 }
    \cup
    { SerVec(<<PSBT_REDEEMSCRIPT_WITNESS_UTXO>>) \o SerVec(TxOutSer(WitnessOut)),
      SerVec(<<PSBT_WITNESSSCRIPT_PARTIAL_SIG>> \o PubKey33) \o SerVec(Signature),
      SerVec(<<PSBT_BIP32_KEYPATH_SIGHASH>>) \o SerVec(LE32(1)),
      SerVec(UnknownKey) \o SerVec(UnknownValue),
      SerVec(ShortKey(<<PSBT_WITNESSSCRIPT_PARTIAL_SIG>> \o PubKey33)) \o SerVec(Signature) }
    \cup
    { SerVec(<<PSBT_NUM_IN_VIN>>) \o <<0>> \o LE64(n) : n \in 0..1 }

\* the first five bytes of a stream: as written by Serialize, with another
\* magic word, with another fifth byte
Heads ==
    { PSBT_MAGIC_BYTES \o <<PSBT_HEAD_BYTE>>,
      <<112, 115, 98, 117>> \o <<PSBT_HEAD_BYTE>>,
      PSBT_MAGIC_BYTES \o <<0>>,
      PSBT_MAGIC_BYTES \o <<254>> }

\* no selection is running
BnBIdle ==
    /\ target_value = 0 /\ cost_of_change = 0
    /\ not_input_fees = 0 /\ actual_target = 0 /\ curr_value = 0
    /\ curr_available_value = 0 /\ curr_waste = 0 /\ curr_selection = <<>>
    /\ best_selection = <<>> /\ best_waste = 0 /\ depth = 0 /\ tries = 0
    /\ bnb_pc = "idle"

KnapIdle ==
    /\ nTargetValue = 0 /\ vValue = <<>> /\ nTotalLower = 0
    /\ coinLowestLarger = <<>> /\ approxTarget = 0 /\ vfBest = <<>>
    /\ nBest = 0 /\ nRep = 0 /\ knap_pc = "idle"

\* the threads, the environment objects and the database objects there can be
DbThreads == {1, 2}
Envs == {1, 2}
Dbs == {1, 2}

NoLocals == [env |-> 0, db |-> 0, pdb |-> FALSE, filenames |-> {}, nRefCount |-> 0,
             caller |-> "", ret |-> FALSE]

\* no environment and no database exists, no thread is in a call
DbIdle ==
    /\ cs_db = 0 /\ g_dbenvs = 0
    /\ use_count = [e \in Envs |-> 0]
    /\ env_life = [e \in Envs |-> "none"]
    /\ fDbEnvInit = [e \in Envs |-> FALSE]
    /\ m_databases = [e \in Envs |-> {}]
    /\ db_env = [d \in Dbs |-> 0]
    /\ m_refcount = [d \in Dbs |-> 0]
    /\ m_db = [d \in Dbs |-> FALSE]
    /\ m_active_txn = [d \in Dbs |-> "null"]
    /\ db_pc = [t \in DbThreads |-> "idle"]
    /\ db_local = [t \in DbThreads |-> NoLocals]

WalletIdle ==
    /\ utxo_pool = <<>> /\ out_set = {} /\ value_ret = 0
    /\ BnBIdle
    /\ KnapIdle
    /\ DbIdle

-----------------------------------------------------------------------------
(* The codec as a state machine                                            *)

InitPSBT ==
    /\ \/ \E t \in Transactions, ui \in BOOLEAN, sigs \in BOOLEAN, unk \in BOOLEAN :
          \E rs \in Optional(OneEntry(Hash160(RedeemScript), RedeemScript)),
             ws \in Optional(OneEntry(SHA256(WitnessScript), WitnessScript)),
             hd \in Optional(OneEntry(PubKey33, Keypath)),
             ni \in {0, Len(t.vin)},
             iv \in InputVectors(Len(t.vin), ui, sigs, unk) :
            LET x == [tx |-> t, redeem_scripts |-> rs, witness_scripts |-> ws,
                      inputs |-> iv,
                      unknown |-> IF unk THEN OneEntry(UnknownKey, UnknownValue)
                                  ELSE EmptyMap,
                      hd_keypaths |-> hd, num_ins |-> ni, use_in_index |-> ui]
            IN  /\ orig = <<x>>
                /\ s = Serialize(x)
                /\ closed = TRUE
       \/ /\ orig = <<>>
          /\ s \in Heads
          /\ closed = FALSE
    /\ head = Take(s, 5)
    /\ fed = <<0, 0>>
    /\ status = "magic"
    /\ err = ""
    /\ nrecords = 0
    /\ FreshObject
    /\ WalletIdle

Decided(o) == o.st \in {"ok", "fail"} \/ (o.st = "eof" /\ closed)

\* the reader cannot take its next step before more of the stream is known
Blocked ==
    /\ status = "running"
    /\ ~closed
    /\ (s = <<>> \/ ~Decided(Dispatch(Header(s), "crash")))

\* the iteration ends as o says: by going round the loop or by a throw
Commit(o) ==
    /\ Decided(o)
    /\ s' = o.rest
    /\ status' = IF o.st = "ok" THEN "running" ELSE "fail"
    /\ err' = IF o.st = "eof" THEN "CDataStream::read(): end of data" ELSE o.err
    /\ in_globals' = o.nxt.in_globals
    /\ separators' = o.nxt.separators
    /\ input' = o.nxt.input
    /\ tx' = o.nxt.tx
    /\ redeem_scripts' = o.nxt.redeem_scripts
    /\ witness_scripts' = o.nxt.witness_scripts
    /\ inputs' = o.nxt.inputs
    /\ unknown' = o.nxt.unknown
    /\ hd_keypaths' = o.nxt.hd_keypaths
    /\ num_ins' = o.nxt.num_ins
    /\ use_in_index' = o.nxt.use_in_index
    /\ UNCHANGED <<closed, fed, orig, head>>
    /\ UNCHANGED walletVars

\* a record of type `type` is next, in the global section or in an input's
IsRecord(h, type, globals) ==
    /\ h.st = "rec"
    /\ h.key[1] = type
    /\ in_globals = globals

\* lines 222-229 without the comparison of lines 225-227
MagicCaseUnchecked ==
    IF Len(s) < 5 THEN [st |-> "eof", err |-> "", rest |-> <<>>, nxt |-> Cur]
    ELSE Ok(Drop(s, 5), Cur)

\* lines 222-229: the magic word is compared, the byte after it is only read
MagicCase ==
    IF Len(s) < 4 THEN [st |-> "eof", err |-> "", rest |-> <<>>, nxt |-> Cur]
    ELSE IF Take(s, 4) # PSBT_MAGIC_BYTES THEN Fail("Invalid PSBT magic bytes", Cur)
    ELSE IF Len(s) < 5 THEN [st |-> "eof", err |-> "", rest |-> <<>>, nxt |-> Cur]
    ELSE Ok(Drop(s, 5), Cur)

UnserMagic ==
    /\ status = "magic"
    /\ Commit(MagicCase)
    /\ UNCHANGED nrecords

\* line 240: the loop ends when the stream is empty, and Unserialize returns
UnserReturn ==
    /\ status = "running"
    /\ s = <<>> /\ closed
    /\ status' = "ok"
    /\ UNCHANGED <<s, closed, fed, err, orig, head, in_globals, separators, input,
                   tx, redeem_scripts, witness_scripts, inputs, unknown,
                   hd_keypaths, num_ins, use_in_index, nrecords>>
    /\ UNCHANGED walletVars

\* lines 246-287: a read of key_len, of the key or of value_len throws
UnserBadHeader ==
    /\ status = "running" /\ s # <<>>
    /\ Header(s).st \in {"eof", "fail"}
    /\ Commit(Dispatch(Header(s), "crash"))
    /\ UNCHANGED nrecords

UnserSeparator ==
    /\ status = "running" /\ s # <<>>
    /\ Header(s).st = "sep"
    /\ Commit(SeparatorCase(Header(s)))
    /\ UNCHANGED nrecords

UnserGlobalTx ==
    /\ status = "running" /\ s # <<>>
    /\ IsRecord(Header(s), PSBT_UNSIGNED_TX_NON_WITNESS_UTXO, TRUE)
    /\ Commit(GlobalTxCase(Header(s)))
    /\ nrecords' = nrecords + 1

UnserNonWitnessUtxo ==
    /\ status = "running" /\ s # <<>>
    /\ IsRecord(Header(s), PSBT_UNSIGNED_TX_NON_WITNESS_UTXO, FALSE)
    /\ \E ub \in UBOutcomes : Commit(NonWitnessUtxoCase(Header(s), ub))
    /\ nrecords' = nrecords + 1

UnserRedeemScript ==
    /\ status = "running" /\ s # <<>>
    /\ IsRecord(Header(s), PSBT_REDEEMSCRIPT_WITNESS_UTXO, TRUE)
    /\ Commit(RedeemScriptCase(Header(s)))
    /\ nrecords' = nrecords + 1

UnserWitnessUtxo ==
    /\ status = "running" /\ s # <<>>
    /\ IsRecord(Header(s), PSBT_REDEEMSCRIPT_WITNESS_UTXO, FALSE)
    /\ Commit(WitnessUtxoCase(Header(s)))
    /\ nrecords' = nrecords + 1

UnserWitnessScript ==
    /\ status = "running" /\ s # <<>>
    /\ IsRecord(Header(s), PSBT_WITNESSSCRIPT_PARTIAL_SIG, TRUE)
    /\ Commit(WitnessScriptCase(Header(s)))
    /\ nrecords' = nrecords + 1

UnserPartialSig ==
    /\ status = "running" /\ s # <<>>
    /\ IsRecord(Header(s), PSBT_WITNESSSCRIPT_PARTIAL_SIG, FALSE)
    /\ Commit(PartialSigCase(Header(s)))
    /\ nrecords' = nrecords + 1

UnserKeypath ==
    /\ status = "running" /\ s # <<>>
    /\ IsRecord(Header(s), PSBT_BIP32_KEYPATH_SIGHASH, TRUE)
    /\ Commit(KeypathCase(Header(s)))
    /\ nrecords' = nrecords + 1

UnserSighash ==
    /\ status = "running" /\ s # <<>>
    /\ IsRecord(Header(s), PSBT_BIP32_KEYPATH_SIGHASH, FALSE)
    /\ Commit(SighashCase(Header(s)))
    /\ nrecords' = nrecords + 1

UnserNumIns ==
    /\ status = "running" /\ s # <<>>
    /\ IsRecord(Header(s), PSBT_NUM_IN_VIN, TRUE)
    /\ Commit(NumInsCase(Header(s)))
    /\ nrecords' = nrecords + 1

UnserInIndex ==
    /\ status = "running" /\ s # <<>>
    /\ IsRecord(Header(s), PSBT_NUM_IN_VIN, FALSE)
    /\ Commit(InIndexCase(Header(s)))
    /\ nrecords' = nrecords + 1

UnserUnknown ==
    /\ status = "running" /\ s # <<>>
    /\ Header(s).st = "rec"
    /\ Header(s).key[1] > PSBT_NUM_IN_VIN
    /\ Commit(UnknownCase(Header(s), Header(s).rest, Cur))
    /\ nrecords' = nrecords + 1

\* The stream of a hand-made input becomes known piece by piece, and only
\* when the reader cannot go on without the next piece: what the reader does
\* is what it does on the whole stream.
FeedRecord ==
    /\ Blocked
    /\ fed[1] < MaxRecs
    /\ \E r \in (IF fed[2] = 0 THEN GlobalRecords ELSE InputRecords) : s' = s \o r
    /\ fed' = <<fed[1] + 1, fed[2]>>
    /\ UNCHANGED <<closed, status, err, orig, head, in_globals, separators, input,
                   tx, redeem_scripts, witness_scripts, inputs, unknown,
                   hd_keypaths, num_ins, use_in_index, nrecords>>
    /\ UNCHANGED walletVars

FeedSeparator ==
    /\ Blocked
    /\ fed[2] < MaxSeps
    /\ s' = s \o <<PSBT_SEPARATOR>>
    /\ fed' = <<fed[1], fed[2] + 1>>
    /\ UNCHANGED <<closed, status, err, orig, head, in_globals, separators, input,
                   tx, redeem_scripts, witness_scripts, inputs, unknown,
                   hd_keypaths, num_ins, use_in_index, nrecords>>
    /\ UNCHANGED walletVars

EndOfStream ==
    /\ Blocked
    /\ closed' = TRUE
    /\ UNCHANGED <<s, fed, status, err, orig, head, in_globals, separators, input,
                   tx, redeem_scripts, witness_scripts, inputs, unknown,
                   hd_keypaths, num_ins, use_in_index, nrecords>>
    /\ UNCHANGED walletVars

NextPSBT ==
    \/ UnserMagic \/ UnserReturn \/ UnserBadHeader \/ UnserSeparator
    \/ UnserGlobalTx \/ UnserNonWitnessUtxo \/ UnserRedeemScript
    \/ UnserWitnessUtxo \/ UnserWitnessScript \/ UnserPartialSig
    \/ UnserKeypath \/ UnserSighash \/ UnserNumIns \/ UnserInIndex
    \/ UnserUnknown \/ FeedRecord \/ FeedSeparator \/ EndOfStream

SpecPSBT == InitPSBT /\ [][NextPSBT]_vars

-----------------------------------------------------------------------------
(* Properties of the codec                                                 *)

\* the PartiallySignedTransaction as read so far
ReadObject ==
    [tx |-> tx, redeem_scripts |-> redeem_scripts, witness_scripts |-> witness_scripts,
     inputs |-> inputs, unknown |-> unknown, hd_keypaths |-> hd_keypaths,
     num_ins |-> num_ins, use_in_index |-> use_in_index]

Returned == status = "ok"
Threw == status = "fail"

\* C1: Unserialize of the bytes Serialize(x) wrote returns, and with an
\* object equal to x, for every PSBT x whose inputs are as many as the
\* inputs of x.tx and whose script maps are keyed by the scripts' hashes.
C1_RoundTrip ==
    (orig # <<>> /\ (Returned \/ Threw)) => (Returned /\ ReadObject = orig[1])

RedeemBound == \A k \in DOMAIN redeem_scripts : Hash160(redeem_scripts[k]) = k
WitnessBound == \A k \in DOMAIN witness_scripts : SHA256(witness_scripts[k]) = k

\* a complete global record of the given type is next whose key has the
\* hash's length and whose value does not hash to the hash in the key
RedeemMismatch ==
    /\ status = "running" /\ s # <<>>
    /\ IsRecord(Header(s), PSBT_REDEEMSCRIPT_WITNESS_UTXO, TRUE)
    /\ Len(Header(s).key) = UINT160_SIZE + 1
    /\ Len(Header(s).rest) >= Header(s).value_len
    /\ Hash160(Take(Header(s).rest, Header(s).value_len)) # Tail(Header(s).key)

WitnessMismatch ==
    /\ status = "running" /\ s # <<>>
    /\ IsRecord(Header(s), PSBT_WITNESSSCRIPT_PARTIAL_SIG, TRUE)
    /\ Len(Header(s).key) = UINT256_SIZE + 1
    /\ Len(Header(s).rest) >= Header(s).value_len
    /\ SHA256(Take(Header(s).rest, Header(s).value_len)) # Tail(Header(s).key)

\* C2: every entry (h, script) of redeem_scripts has HASH160(script) = h and
\* every entry of witness_scripts has SHA256(script) = h, at every point of a
\* deserialization and so after a successful one; and the step that reads a
\* global 0x01 or 0x02 record whose value does not hash to the hash in its
\* key throws and leaves both maps as they were.
C2_HashBinding ==
    /\ [](RedeemBound /\ WitnessBound)
    /\ [][(nrecords' # nrecords /\ (RedeemMismatch \/ WitnessMismatch))
            => /\ status' = "fail"
               /\ redeem_scripts' = redeem_scripts
               /\ witness_scripts' = witness_scripts]_vars

C2_Witness ==
    /\ Threw
    /\ err = "Provided sha256 does not match the witnessscript's sha256"
    /\ redeem_scripts # EmptyMap

\* C6: with num_ins > 0 declared, Unserialize returns only when the input
\* sections read (the separators after the first) are num_ins, and it does
\* not throw the input-count error when they are num_ins.
C6_InputCount ==
    /\ (Returned /\ num_ins > 0) => separators - 1 = num_ins
    /\ (Threw /\ num_ins > 0
           /\ err = "Inputs provided does not match the number of inputs stated.")
          => separators - 1 # num_ins

\* C7: Unserialize does not return when one input section carried a 0x04
\* index record and another carried none, in either order.
C7_IndexPolicy ==
    Returned =>
        ~ \E i, j \in 1..Len(inputs) :
              inputs[i].use_in_index /\ ~inputs[j].use_in_index

\* C8: on a stream whose first four bytes are not the magic word Unserialize
\* throws the invalid-magic error, with no record read and every field of the
\* object as it was before the call.
C8_Magic ==
    Take(head, 4) # PSBT_MAGIC_BYTES =>
        /\ status = "magic" \/ (Threw /\ err = "Invalid PSBT magic bytes")
        /\ nrecords = 0
        /\ FreshObject

C8_Witness ==
    /\ Take(head, 4) # PSBT_MAGIC_BYTES
    /\ Threw /\ err = "Invalid PSBT magic bytes"
    /\ s = <<>>

\* C9: Unserialize does not return on a stream that begins with the magic
\* word and a fifth byte other than 0xFF.
C9_HeadByte ==
    (Take(head, 4) = PSBT_MAGIC_BYTES /\ head[5] # PSBT_HEAD_BYTE) => ~Returned

\* C10: after Unserialize returned, the non-witness UTXO of every input
\* section that carried no index record hashes to the prevout hash of the
\* input of tx at the section's position.
C10_UtxoBinding ==
    Returned =>
        \A i \in 1..Len(inputs) :
            (/\ inputs[i].non_witness_utxo # <<>>
             /\ ~inputs[i].use_in_index
             /\ i <= Len(tx.vin))
            => TxHash(inputs[i].non_witness_utxo[1]) = tx.vin[i].prevout

\* the bytes r occur in the bytes q, next to one another
IsInfix(r, q) ==
    \E j \in 0..(Len(q) - Len(r)) : SubSeq(q, j + 1, j + Len(r)) = r

\* a complete record with a tag above 0x04 is next
UnknownNext ==
    /\ status = "running" /\ s # <<>>
    /\ Header(s).st = "rec"
    /\ Header(s).key[1] > PSBT_NUM_IN_VIN
    /\ Len(Header(s).rest) >= Header(s).value_len

\* the step that reads such a record reads that record and no more, and
\* leaves its key with its value in the unknown map of the section it is in
UnknownStored ==
    [][(nrecords' # nrecords /\ UnknownNext)
         => LET h == Header(s)
                v == Take(h.rest, h.value_len)
            IN  /\ status' = "running"
                /\ s' = Drop(h.rest, h.value_len)
                /\ IF in_globals
                   THEN h.key \in DOMAIN unknown' /\ unknown'[h.key] = v
                   ELSE h.key \in DOMAIN input'.unknown /\ input'.unknown[h.key] = v]_vars

\* Serialize of the object read writes every record of the unknown maps that
\* has a tag above 0x04, in the section whose map holds it
UnknownEmitted ==
    /\ \A k \in DOMAIN unknown :
          k[1] > PSBT_NUM_IN_VIN
            => IsInfix(SerVec(k) \o SerVec(unknown[k]), SerUnknown(unknown))
    /\ \A i \in 1..Len(inputs) :
          \A k \in DOMAIN inputs[i].unknown :
              k[1] > PSBT_NUM_IN_VIN
                => /\ i <= Len(tx.vin)
                   /\ IsInfix(SerVec(k) \o SerVec(inputs[i].unknown[k]),
                              SerInput(tx.vin[i], inputs[i], use_in_index))

\* C11: the step of Unserialize that reads a record with a tag outside
\* 0x00..0x04 reads exactly that record and stores its key and its value in
\* the unknown map of its section, and after Unserialize returned Serialize
\* writes the same key and value in the same section.
C11_UnknownRepeated ==
    /\ UnknownStored
    /\ [](Returned => UnknownEmitted)

\* a complete record with a tag of 0x00..0x04 is next
RecognizedNext ==
    /\ status = "running" /\ s # <<>>
    /\ Header(s).st = "rec"
    /\ Header(s).key[1] <= PSBT_NUM_IN_VIN
    /\ Len(Header(s).rest) >= Header(s).value_len

\* no key with a tag of 0x00..0x04 is in an unknown map
NoRecognizedKey(m) == \A k \in DOMAIN m : k[1] > PSBT_NUM_IN_VIN

\* C12: no key with a tag of 0x00..0x04 is ever in the global unknown map or
\* in the unknown map of an input, and the step of Unserialize that reads a
\* record with such a tag and does not throw reads the value bytes of that
\* record and no byte after them.
C12_RecognizedNotUnknown ==
    /\ [](/\ NoRecognizedKey(unknown)
          /\ NoRecognizedKey(input.unknown)
          /\ \A i \in 1..Len(inputs) : NoRecognizedKey(inputs[i].unknown))
    /\ [][(nrecords' # nrecords /\ RecognizedNext /\ status' = "running")
            => s' = Drop(Header(s).rest, Header(s).value_len)]_vars

\* C13: when Unserialize has thrown, tx, redeem_scripts, witness_scripts,
\* hd_keypaths, inputs, num_ins and use_in_index of the object are what they
\* were before the call (those of a newly constructed object).
C13_NoPartialOutput ==
    Threw =>
        /\ tx = NullTx
        /\ redeem_scripts = EmptyMap /\ witness_scripts = EmptyMap
        /\ hd_keypaths = EmptyMap
        /\ inputs = <<>>
        /\ num_ins = 0
        /\ use_in_index = FALSE

\* a complete record is next whose key has not the length of its type: a
\* global 0x01 record with a key of other than 21 bytes, a global 0x02 record
\* with a key of other than 33 bytes, a global 0x03 or an input's 0x02 record
\* with a key of neither 34 nor 66 bytes
BadKeyNext ==
    /\ status = "running" /\ s # <<>>
    /\ Header(s).st = "rec"
    /\ Len(Header(s).rest) >= Header(s).value_len
    /\ LET key == Header(s).key
       IN  \/ in_globals /\ key[1] = 1 /\ Len(key) # 21
           \/ in_globals /\ key[1] = 2 /\ Len(key) # 33
           \/ in_globals /\ key[1] = 3 /\ Len(key) \notin {34, 66}
           \/ ~in_globals /\ key[1] = 2 /\ Len(key) \notin {34, 66}

\* C24: the step of Unserialize that reads a record whose key has not the
\* length of its type throws, and leaves the script maps, hd_keypaths, the
\* partial signatures of the input and the unknown maps as they were.
C24_KeyLength ==
    [][(nrecords' # nrecords /\ BadKeyNext)
         => /\ status' = "fail"
            /\ redeem_scripts' = redeem_scripts
            /\ witness_scripts' = witness_scripts
            /\ hd_keypaths' = hd_keypaths
            /\ input'.partial_sigs = input.partial_sigs
            /\ unknown' = unknown /\ input'.unknown = input.unknown]_vars

C24_Witness ==
    /\ Threw
    /\ err = "Size of key was not the expected size for the type partial signature pubkey"
    /\ input.partial_sigs # EmptyMap
    /\ redeem_scripts # EmptyMap

\* C25: after Unserialize returned, no input holds both a non-witness UTXO
\* and a witness UTXO.
C25_UtxoExclusive ==
    Returned =>
        \A i \in 1..Len(inputs) :
            ~(inputs[i].non_witness_utxo # <<>> /\ ~TxOutIsNull(inputs[i].witness_utxo))

\* the reader is in the global section: no separator was read, no input is
\* in the vector and nothing is stored in the input of the loop
InGlobals == in_globals /\ separators = 0 /\ inputs = <<>> /\ input = NullInput

\* the reader is in the section of inputs[i] (i counts from 0): i + 1
\* separators were read and i inputs are in the vector
InInput(i) == ~in_globals /\ separators = i + 1 /\ Len(inputs) = i

\* the step reads a separator
SeparatorRead == separators' # separators

\* the step reads a key-value record and does not throw
RecordRead == nrecords' # nrecords /\ status' = "running"

\* the input in holds what the record with header h carries: the member of
\* its type has the record's value, or the map of its type has its key
StoredIn(h, in) ==
    CASE h.key[1] = PSBT_UNSIGNED_TX_NON_WITNESS_UTXO ->
             in.non_witness_utxo = <<ReadTx(h.rest).v>>
      [] h.key[1] = PSBT_REDEEMSCRIPT_WITNESS_UTXO ->
             in.witness_utxo = ReadTxOut(h.rest).v
      [] h.key[1] = PSBT_WITNESSSCRIPT_PARTIAL_SIG ->
             CPubKey(Tail(h.key)) \in DOMAIN in.partial_sigs
      [] h.key[1] = PSBT_BIP32_KEYPATH_SIGHASH ->
             in.sighash_type = ReadLE32(Take(h.rest, 4))
      [] h.key[1] = PSBT_NUM_IN_VIN ->
             in.use_in_index /\ in.index = ReadLE64(Take(h.rest, 8))
      [] OTHER -> h.key \in DOMAIN in.unknown

\* C28: the reader starts in InGlobals, the first separator takes it to
\* InInput(0) and every further one from InInput(i) to InInput(i + 1),
\* appending the input of the loop to the vector as inputs[i] and starting
\* the next section with nothing stored; a record read in InInput(i) is
\* stored in the input of the loop and changes no input of the vector, and
\* a record read in InGlobals is stored in no input.
C28_RecordTargeting ==
    /\ (status = "magic" => InGlobals)
    /\ [](InGlobals \/ \E i \in 0..MaxSeps : InInput(i))
    /\ [][/\ SeparatorRead =>
                \/ InGlobals /\ InInput(0)'
                \/ \E i \in 0..MaxSeps :
                      /\ InInput(i) /\ InInput(i + 1)'
                      /\ inputs' = Append(inputs, input)
                      /\ [input' EXCEPT !.index = 0] = NullInput
          /\ ~SeparatorRead => inputs' = inputs /\ in_globals' = in_globals
          /\ RecordRead /\ in_globals => input' = input
          /\ RecordRead /\ ~in_globals => StoredIn(Header(s), input')]_vars

\* Unserialize returned two inputs that hold different records
C28_Witness ==
    /\ Returned /\ Len(inputs) >= 2
    /\ inputs[1].partial_sigs # EmptyMap /\ inputs[2].partial_sigs = EmptyMap
    /\ UnknownKey \in DOMAIN inputs[2].unknown /\ UnknownKey \notin DOMAIN inputs[1].unknown

\* the next step is that of lines 295-307 for a record of an input whose
\* transaction is read: it evaluates tx.vin[input.index] (line 301)
NonWitnessUtxoAccess ==
    /\ status = "running" /\ s # <<>>
    /\ IsRecord(Header(s), PSBT_UNSIGNED_TX_NON_WITNESS_UTXO, FALSE)
    /\ ReadTx(Header(s).rest).st = "ok"

\* C33: whenever Unserialize evaluates tx.vin[input.index] for a non-witness
\* UTXO record of an input, input.index is less than the number of inputs of
\* the unsigned transaction read so far.
C33_IndexInRange == NonWitnessUtxoAccess => input.index < Len(tx.vin)

\* C34: a section of an input that has no index record is read with, and
\* leaves in its element of inputs, the index that is its position: the
\* i-th section, counted from 0, has index i.
C34_DefaultIndex ==
    /\ (status = "running" /\ ~in_globals /\ ~input.use_in_index)
          => input.index = separators - 1
    /\ \A i \in 1..Len(inputs) :
          ~inputs[i].use_in_index => inputs[i].index = i - 1

\* the input of the loop holds what a record of the section being read left
\* in it (line 237's local, not yet pushed by line 262)
HoldsRecords(in) == [in EXCEPT !.index = 0] # NullInput

\* C35: when Unserialize returns after a separator was read, inputs has one
\* element for each separator but the first, and no record of a section of
\* an input is left in the input of the loop, which is then discarded.
C35_NothingDropped ==
    (Returned /\ separators > 0) =>
        /\ Len(inputs) = separators - 1
        /\ ~HoldsRecords(input)

-----------------------------------------------------------------------------
(* SelectCoinsBnB, src/wallet/coinselection.cpp:50-159                     *)
(*                                                                         *)
(* A unit of the pool is [outpoint, effective_value, fee, long_term_fee,   *)
(* nValue]; depth and the vector indices count from 0 as in the code, so   *)
(* the unit at index d is utxo_pool[d + 1].                                *)

TOTAL_TRIES == 100000
\* amount.h's MAX_MONEY, brought down to a number of 32 bits; it only has
\* to exceed every waste a selection can have
MAX_MONEY == 2100000000

At(v, d) == v[d + 1]

\* the comparator of lines 10-15
descending(a, b) == a.effective_value > b.effective_value

\* std::sort leaves any arrangement in which no unit precedes one that the
\* comparator puts before it
IsSortedBy(v) == \A i, j \in 1..Len(v) : i < j => ~descending(v[j], v[i])
Arrangements(v) ==
    { [i \in 1..Len(v) |-> v[f[i]]] :
        f \in { g \in [1..Len(v) -> 1..Len(v)] :
                  \A i, j \in 1..Len(v) : i # j => g[i] # g[j] } }
\* the arrangements of the units of v at the indices S that are sorted: one
\* of the units that the comparator puts before no other comes first
RECURSIVE SortedFrom(_, _)
SortedFrom(v, S) ==
    IF S = {} THEN { <<>> }
    ELSE UNION { { <<v[i]>> \o w : w \in SortedFrom(v, S \ {i}) } :
                 i \in { j \in S : \A k \in S : ~descending(v[k], v[j]) } }

\* line 72 with the pool left in any order
Unsorted(v) == Arrangements(v)

\* line 72: what std::sort may leave
Sorted(v) == SortedFrom(v, 1..Len(v))

\* lines 63-66: the effective values of the units of v together
EffectiveTotal(v) == SumSeq([i \in 1..Len(v) |-> v[i].effective_value])
Waste(u) == u.fee - u.long_term_fee

\* line 67 with the target taken without the fees that are not of inputs
InsufficientFundsBelowTarget == EffectiveTotal(utxo_pool) < target_value

\* lines 60-67: the pool as a whole is worth less than the actual target
InsufficientFunds == EffectiveTotal(utxo_pool) < not_input_fees + target_value

\* lines 54-76: the insufficient-funds test, the sort and the first values
BnBCall ==
    /\ bnb_pc = "call"
    /\ out_set' = {}
    /\ actual_target' = not_input_fees + target_value
    /\ curr_value' = 0
    /\ depth' = 0
    /\ curr_selection' = [i \in 1..Len(utxo_pool) |-> FALSE]
    /\ curr_available_value' = EffectiveTotal(utxo_pool)
    /\ curr_waste' = 0
    /\ best_selection' = <<>>
    /\ tries' = 0
    /\ IF InsufficientFunds
       THEN /\ bnb_pc' = "false"
            /\ UNCHANGED <<utxo_pool, best_waste>>
       ELSE /\ utxo_pool' \in Sorted(utxo_pool)
            /\ best_waste' = MAX_MONEY
            /\ bnb_pc' = "loop"
    /\ UNCHANGED <<target_value, cost_of_change, not_input_fees, value_ret>>
    /\ UNCHANGED <<psbtVars, knapVars, dbVars>>

\* line 79: the condition of the loop, with tries for i
MoreTries == tries < TOTAL_TRIES

\* line 81 with a target that is only just within reach taken as out of it
CannotReachOrOnlyJust == curr_value + curr_available_value <= actual_target

\* line 81: what is selected and what is still available do not make the
\* target together
CannotReach == curr_value + curr_available_value < actual_target

\* lines 81-83 without the test of line 82 on the upper end of the range
MustBacktrackNoUpperEnd ==
    \/ CannotReach
    \/ (curr_waste > best_waste
          /\ At(utxo_pool, 0).fee - At(utxo_pool, 0).long_term_fee > 0)

\* lines 81-83: the three conditions that start a backtrack
MustBacktrack ==
    \/ CannotReach
    \/ curr_value > actual_target + cost_of_change
    \/ (curr_waste > best_waste
          /\ At(utxo_pool, 0).fee - At(utxo_pool, 0).long_term_fee > 0)

\* line 85 with > for >=: a selection that makes the target exactly is not
\* taken as within the range
InRangeAbove == ~MustBacktrack /\ curr_value > actual_target

\* line 85: the selected value is within the range
InRange == ~MustBacktrack /\ curr_value >= actual_target

\* lines 86-95: the waste of the current selection with its excess
CurrentWaste == curr_waste + (curr_value - actual_target)

\* line 91 without the comparison: every selection within the range is kept
IsBetterAlways == TRUE

\* line 91 with < for <=: a selection of the same waste does not replace
IsBetterStrictly == CurrentWaste < best_waste

\* line 91 with the first selection within the range kept for good
IsBetterFirstFound == best_selection = <<>>

\* line 91
IsBetter == CurrentWaste <= best_waste

\* lines 102-109 without the addition of line 107
RECURSIVE WalkBackNoRestore(_, _)
WalkBackNoRestore(d, available) ==
    IF d >= 0 /\ ~At(curr_selection, d)
    THEN WalkBackNoRestore(d - 1, available)
    ELSE [depth |-> d, available |-> available]

\* lines 102-109: walk back over the units that are not selected
RECURSIVE WalkBack(_, _)
WalkBack(d, available) ==
    IF d >= 0 /\ ~At(curr_selection, d)
    THEN WalkBack(d - 1, available + At(utxo_pool, d).effective_value)
    ELSE [depth |-> d, available |-> available]

\* lines 125-127 without the comparison of the fees
IsEquivalentValue(d) ==
    /\ d > 0
    /\ ~At(curr_selection, d - 1)
    /\ At(utxo_pool, d).effective_value = At(utxo_pool, d - 1).effective_value

\* lines 125-127: the unit before this one was left out and has the same
\* effective value and the same fee
IsEquivalent(d) ==
    /\ d > 0
    /\ ~At(curr_selection, d - 1)
    /\ At(utxo_pool, d).effective_value = At(utxo_pool, d - 1).effective_value
    /\ At(utxo_pool, d).fee = At(utxo_pool, d - 1).fee

\* a loop iteration that backtracks (lines 81-118), after recording the
\* current selection when it is in range (lines 85-97)
BnBBacktrack ==
    /\ bnb_pc = "loop" /\ MoreTries
    /\ MustBacktrack \/ InRange
    /\ tries' = tries + 1
    /\ IF InRange /\ IsBetter
       THEN best_selection' = curr_selection /\ best_waste' = CurrentWaste
       ELSE UNCHANGED <<best_selection, best_waste>>
    /\ LET w == WalkBack(depth - 1, curr_available_value)
       IN  /\ curr_available_value' = w.available
           /\ IF w.depth < 0
              THEN /\ depth' = w.depth
                   /\ bnb_pc' = "end"
                   /\ UNCHANGED <<curr_selection, curr_value, curr_waste>>
              ELSE /\ curr_selection' = [curr_selection EXCEPT ![w.depth + 1] = FALSE]
                   /\ curr_value' = curr_value - At(utxo_pool, w.depth).effective_value
                   /\ curr_waste' = curr_waste - Waste(At(utxo_pool, w.depth))
                   /\ depth' = w.depth + 1
                   /\ UNCHANGED bnb_pc
    /\ UNCHANGED <<utxo_pool, target_value, cost_of_change, not_input_fees,
                   actual_target, out_set, value_ret>>
    /\ UNCHANGED <<psbtVars, knapVars, dbVars>>

\* a loop iteration that moves forward and leaves the unit out (lines 125-130)
BnBSkip ==
    /\ bnb_pc = "loop" /\ MoreTries
    /\ ~MustBacktrack /\ ~InRange
    /\ depth < Len(utxo_pool)
    /\ IsEquivalent(depth)
    /\ tries' = tries + 1
    /\ curr_selection' = [curr_selection EXCEPT ![depth + 1] = FALSE]
    /\ curr_available_value' = curr_available_value - At(utxo_pool, depth).effective_value
    /\ depth' = depth + 1
    /\ UNCHANGED <<utxo_pool, target_value, cost_of_change, not_input_fees,
                   actual_target, curr_value, curr_waste, best_selection,
                   best_waste, bnb_pc, out_set, value_ret>>
    /\ UNCHANGED <<psbtVars, knapVars, dbVars>>

\* a loop iteration that moves forward and selects the unit (lines 131-140);
\* utxo_pool.at(depth) throws when depth is no index of the pool (line 121)
BnBInclude ==
    /\ bnb_pc = "loop" /\ MoreTries
    /\ ~MustBacktrack /\ ~InRange
    /\ IF depth >= Len(utxo_pool)
       THEN /\ bnb_pc' = "throw"
            /\ UNCHANGED <<tries, curr_available_value, curr_waste, curr_selection,
                           curr_value, depth>>
       ELSE /\ ~IsEquivalent(depth)
            /\ tries' = tries + 1
            /\ curr_available_value' =
                   curr_available_value - At(utxo_pool, depth).effective_value
            /\ curr_waste' = curr_waste + Waste(At(utxo_pool, depth))
            /\ curr_selection' = [curr_selection EXCEPT ![depth + 1] = TRUE]
            /\ curr_value' = curr_value + At(utxo_pool, depth).effective_value
            /\ depth' = depth + 1
            /\ UNCHANGED bnb_pc
    /\ UNCHANGED <<utxo_pool, target_value, cost_of_change, not_input_fees,
                   actual_target, best_selection, best_waste, out_set, value_ret>>
    /\ UNCHANGED <<psbtVars, knapVars, dbVars>>

Selected(sel) == { i \in 1..Len(sel) : sel[i] }

\* line 153 with the effective value of the unit for the value of its output
ActualValueEffective(u) == u.effective_value

\* line 153: utxo_pool.at(i).txout.nValue
ActualValue(u) == u.nValue

\* lines 144-158: the loop is over; the result
BnBReturn ==
    /\ bnb_pc = "end" \/ (bnb_pc = "loop" /\ ~MoreTries)
    /\ IF best_selection = <<>>
       THEN /\ bnb_pc' = "false"
            /\ UNCHANGED <<out_set, value_ret>>
       ELSE /\ bnb_pc' = "true"
            /\ out_set' = { utxo_pool[i] : i \in Selected(best_selection) }
            /\ value_ret' = SumSeq([i \in 1..Len(utxo_pool) |->
                                      IF best_selection[i] THEN ActualValue(utxo_pool[i])
                                      ELSE 0])
    /\ UNCHANGED <<utxo_pool, target_value, cost_of_change, not_input_fees,
                   actual_target, curr_value, curr_available_value, curr_waste,
                   curr_selection, best_selection, best_waste, depth, tries>>
    /\ UNCHANGED <<psbtVars, knapVars, dbVars>>

\* ---- the calls that are made

MaxPool == 3        \* units of a pool

EffectiveValues == {1, 2}
\* pairs of fee and long_term_fee: fee above, equal, fee below
Fees == {<<1, 0>>, <<1, 1>>, <<0, 2>>}
TargetValues == {1, 2}
NotInputFees == {0, 1}
CostsOfChange == {0, 1, 2}

Unit(i, ev, f) ==
    [outpoint |-> i, effective_value |-> ev, fee |-> f[1], long_term_fee |-> f[2],
     nValue |-> ev + f[1]]

Pools ==
    UNION { { [i \in 1..n |-> Unit(i, ev[i], f[i])] :
                ev \in [1..n -> EffectiveValues], f \in [1..n -> Fees] } :
            n \in 0..MaxPool }

\* what the caller's out_set holds when the call is made: nothing, or a
\* coin of an earlier selection
CallerSets == { {}, {Unit(0, 1, <<1, 1>>)} }

PsbtIdle ==
    /\ s = <<>> /\ closed = TRUE /\ fed = <<0, 0>> /\ status = "idle" /\ err = ""
    /\ orig = <<>> /\ head = <<>> /\ nrecords = 0
    /\ FreshObject

\* two calls with four units of different effective values, every unit with
\* fee = long_term_fee: one with a cost of change of 0, one with a window
ExactMatchCall == [values |-> <<8, 5, 3, 2>>, target_value |-> 10, cost_of_change |-> 0]
ChangeWindowCall == [values |-> <<10, 7, 5, 3>>, target_value |-> 11, cost_of_change |-> 2]
UniformFees == {<<0, 0>>, <<1, 1>>}

\* the pools of such a call, in every order the caller may pass them
PoolsOf(c) ==
    UNION { Arrangements([i \in 1..Len(c.values) |-> Unit(i, c.values[i], f)]) :
            f \in UniformFees }

\* the call is about to be made: the locals are not set yet
BnBEntry ==
    /\ bnb_pc = "call"
    /\ actual_target = 0 /\ curr_value = 0 /\ curr_available_value = 0
    /\ curr_waste = 0 /\ curr_selection = <<>> /\ best_selection = <<>>
    /\ best_waste = 0 /\ depth = 0 /\ tries = 0 /\ value_ret = 0
    /\ out_set \in CallerSets
    /\ PsbtIdle
    /\ KnapIdle
    /\ DbIdle

InitBnB ==
    /\ \/ /\ utxo_pool \in Pools
          /\ target_value \in TargetValues
          /\ not_input_fees \in NotInputFees
          /\ cost_of_change \in CostsOfChange
       \/ \E c \in {ExactMatchCall, ChangeWindowCall} :
             /\ utxo_pool \in PoolsOf(c)
             /\ target_value = c.target_value
             /\ not_input_fees = 0
             /\ cost_of_change = c.cost_of_change
    /\ BnBEntry

NextBnB == BnBCall \/ BnBBacktrack \/ BnBSkip \/ BnBInclude \/ BnBReturn

SpecBnB == InitBnB /\ [][NextBnB]_vars

-----------------------------------------------------------------------------
(* KnapsackSolver and ApproximateBestSubset,                               *)
(* src/wallet/coinselection.cpp:161-294                                    *)

MIN_CHANGE == 1000000

\* the default of ApproximateBestSubset's iterations parameter is 1000; the
\* loop is followed for this many repetitions
Iterations == 2

\* line 190 with a total of one less than the target taken as reaching it
ReachedTargetEarly(nTotal, target) == nTotal >= target - 1

\* line 190: the running total has reached the target
ReachedTarget(nTotal, target) == nTotal >= target

\* line 193 with <= for <: a total that equals the best replaces it
IsNewBestOrSame(nTotal, best) == nTotal <= best

\* line 193: the total is less than the best so far
IsNewBest(nTotal, best) == nTotal < best

\* lines 186-201: the body of the inner loop for coin i in pass nPass, on the
\* locals t = [nTotal, vfIncluded, fReachedTarget, nBest, vfBest]
TryCoin(t, i, nPass, flips, target) ==
    IF (IF nPass = 0 THEN flips[i] ELSE ~t.vfIncluded[i])
    THEN LET total == t.nTotal + vValue[i].nValue
             incl == [t.vfIncluded EXCEPT ![i] = TRUE]
         IN  IF ReachedTarget(total, target)
             THEN [t EXCEPT !.fReachedTarget = TRUE,
                            !.nBest = IF IsNewBest(total, t.nBest) THEN total ELSE t.nBest,
                            !.vfBest = IF IsNewBest(total, t.nBest) THEN incl ELSE t.vfBest]
             ELSE [t EXCEPT !.nTotal = total, !.vfIncluded = incl]
    ELSE t

\* lines 178-202: one pass over the coins, from coin i on
RECURSIVE Pass(_, _, _, _, _)
Pass(t, i, nPass, flips, target) ==
    IF i > Len(vValue) THEN t
    ELSE Pass(TryCoin(t, i, nPass, flips, target), i + 1, nPass, flips, target)

\* lines 173-203: one repetition; flips are the outcomes of randbool()
Repetition(flips, target) ==
    LET t0 == [nTotal |-> 0, vfIncluded |-> [i \in 1..Len(vValue) |-> FALSE],
               fReachedTarget |-> FALSE, nBest |-> nBest, vfBest |-> vfBest]
        t1 == Pass(t0, 1, 0, flips, target)
    IN  IF t1.fReachedTarget THEN t1 ELSE Pass(t1, 1, 1, flips, target)

\* line 221 with a coin above the target taken as a match too
IsExactMatchOrAbove(coin) == coin.nValue >= nTargetValue

\* line 221: the coin is worth the target exactly
IsExactMatch(coin) == coin.nValue = nTargetValue

\* line 232 with the comparison turned round: the biggest coin is kept
IsHigherLarger(coin, lowest) ==
    lowest = <<>> \/ coin.nValue > lowest[1].nValue

\* line 232: there is no bigger coin yet, or this one is smaller than it
IsLowerLarger(coin, lowest) ==
    lowest = <<>> \/ coin.nValue < lowest[1].nValue

\* lines 229-230 without the addition of line 230
PushLowerUncounted(k, coin) == [k EXCEPT !.vValue = Append(k.vValue, coin)]

\* lines 229-230: a coin below nTargetValue + MIN_CHANGE joins vValue and
\* counts for nTotalLower
PushLower(k, coin) ==
    [k EXCEPT !.vValue = Append(k.vValue, coin),
              !.nTotalLower = k.nTotalLower + coin.nValue]

\* lines 219-236: the scan of the shuffled pool, from coin i on, on the locals
\* k = [hit, vValue, nTotalLower, coinLowestLarger]
RECURSIVE Scan(_, _, _)
Scan(pool, i, k) ==
    IF i > Len(pool) THEN k
    ELSE LET coin == pool[i]
         IN  IF IsExactMatch(coin)
             THEN [k EXCEPT !.hit = <<coin>>]
             ELSE IF coin.nValue < nTargetValue + MIN_CHANGE
                  THEN Scan(pool, i + 1, PushLower(k, coin))
                  ELSE IF IsLowerLarger(coin, k.coinLowestLarger)
                       THEN Scan(pool, i + 1, [k EXCEPT !.coinLowestLarger = <<coin>>])
                       ELSE Scan(pool, i + 1, k)

\* lines 240-244: the values of the coins of v together
ValueTotal(v) == SumSeq([i \in 1..Len(v) |-> v[i].nValue])
CoinsOf(v) == { v[i] : i \in 1..Len(v) }

\* lines 209-258 and the first lines of ApproximateBestSubset (166-167)
KnapCall ==
    /\ knap_pc = "call"
    /\ \E shuffled \in Arrangements(utxo_pool) :
         LET k == Scan(shuffled, 1, [hit |-> <<>>, vValue |-> <<>>,
                                     nTotalLower |-> 0, coinLowestLarger |-> <<>>])
         IN  /\ utxo_pool' = shuffled
             /\ nTotalLower' = k.nTotalLower
             /\ coinLowestLarger' = k.coinLowestLarger
             /\ IF k.hit # <<>>
                THEN /\ out_set' = {k.hit[1]}
                     /\ value_ret' = k.hit[1].nValue
                     /\ knap_pc' = "true"
                     /\ vValue' = k.vValue
                     /\ UNCHANGED <<approxTarget, vfBest, nBest, nRep>>
                ELSE IF k.nTotalLower = nTargetValue
                THEN /\ out_set' = CoinsOf(k.vValue)
                     /\ value_ret' = ValueTotal(k.vValue)
                     /\ knap_pc' = "true"
                     /\ vValue' = k.vValue
                     /\ UNCHANGED <<approxTarget, vfBest, nBest, nRep>>
                ELSE IF k.nTotalLower < nTargetValue
                THEN /\ IF k.coinLowestLarger = <<>>
                        THEN /\ knap_pc' = "false"
                             /\ out_set' = {}
                             /\ value_ret' = 0
                        ELSE /\ knap_pc' = "true"
                             /\ out_set' = {k.coinLowestLarger[1]}
                             /\ value_ret' = k.coinLowestLarger[1].nValue
                     /\ vValue' = k.vValue
                     /\ UNCHANGED <<approxTarget, vfBest, nBest, nRep>>
                ELSE /\ vValue' \in Sorted(k.vValue)
                     /\ out_set' = {}
                     /\ value_ret' = 0
                     /\ approxTarget' = nTargetValue
                     /\ vfBest' = [i \in 1..Len(k.vValue) |-> TRUE]
                     /\ nBest' = k.nTotalLower
                     /\ nRep' = 0
                     /\ knap_pc' = "approx1"
    /\ UNCHANGED nTargetValue
    /\ UNCHANGED <<psbtVars, bnbVars, dbVars>>

\* line 171 with <= for <: one repetition more
MoreRepetitionsAndOne == nRep <= Iterations /\ nBest # approxTarget

\* line 171: the condition of the loop over the repetitions
MoreRepetitions == nRep < Iterations /\ nBest # approxTarget

\* lines 171-204: one repetition of the loop of ApproximateBestSubset
ApproxRepetition ==
    /\ knap_pc \in {"approx1", "approx2"}
    /\ MoreRepetitions
    /\ \E flips \in [1..Len(vValue) -> BOOLEAN] :
         LET t == Repetition(flips, approxTarget)
         IN  /\ nBest' = t.nBest
             /\ vfBest' = t.vfBest
    /\ nRep' = nRep + 1
    /\ UNCHANGED <<selVars, nTargetValue, vValue, nTotalLower, coinLowestLarger,
                   approxTarget, knap_pc>>
    /\ UNCHANGED <<psbtVars, bnbVars, dbVars>>

\* line 263: the second call is made
SecondCall == nBest # nTargetValue /\ nTotalLower >= nTargetValue + MIN_CHANGE

\* lines 263-264 and 166-167: the first call is over and the second begins
ApproxAgain ==
    /\ knap_pc = "approx1"
    /\ ~MoreRepetitions
    /\ SecondCall
    /\ approxTarget' = nTargetValue + MIN_CHANGE
    /\ vfBest' = [i \in 1..Len(vValue) |-> TRUE]
    /\ nBest' = nTotalLower
    /\ nRep' = 0
    /\ knap_pc' = "approx2"
    /\ UNCHANGED <<selVars, nTargetValue, vValue, nTotalLower, coinLowestLarger>>
    /\ UNCHANGED <<psbtVars, bnbVars, dbVars>>

\* lines 268-269 without the test on what the approximation found
TakeLowestLargerWhenCloser ==
    /\ coinLowestLarger # <<>>
    /\ coinLowestLarger[1].nValue <= nBest

\* lines 268-269: the bigger coin is returned
TakeLowestLarger ==
    /\ coinLowestLarger # <<>>
    /\ \/ (nBest # nTargetValue /\ nBest < nTargetValue + MIN_CHANGE)
       \/ coinLowestLarger[1].nValue <= nBest

\* lines 266-293: the calls are over; the result
KnapReturn ==
    /\ \/ knap_pc = "approx1" /\ ~MoreRepetitions /\ ~SecondCall
       \/ knap_pc = "approx2" /\ ~MoreRepetitions
    /\ IF TakeLowestLarger
       THEN /\ out_set' = out_set \cup {coinLowestLarger[1]}
            /\ value_ret' = value_ret + coinLowestLarger[1].nValue
       ELSE /\ out_set' = out_set \cup { vValue[i] : i \in Selected(vfBest) }
            /\ value_ret' = value_ret +
                   SumSeq([i \in 1..Len(vValue) |->
                             IF vfBest[i] THEN vValue[i].nValue ELSE 0])
    /\ knap_pc' = "true"
    /\ UNCHANGED <<utxo_pool, nTargetValue, vValue, nTotalLower, coinLowestLarger,
                   approxTarget, vfBest, nBest, nRep>>
    /\ UNCHANGED <<psbtVars, bnbVars, dbVars>>

\* ---- the calls that are made

MaxCoins == 3       \* coins of a pool

CoinValues == {1, 2, 600000, 2000000, 3000000}
KnapsackTargets == {2, 3}

\* the pools are given by increasing value: line 217 shuffles them into
\* every order before anything is read
KnapsackPools ==
    UNION { { [i \in 1..n |-> Unit(i, v[i], <<0, 0>>)] :
                v \in { w \in [1..n -> CoinValues] :
                          \A i, j \in 1..n : i < j => w[i] <= w[j] } } :
            n \in 0..MaxCoins }

InitKnap ==
    /\ utxo_pool \in KnapsackPools
    /\ nTargetValue \in KnapsackTargets
    /\ knap_pc = "call"
    /\ out_set \in CallerSets /\ value_ret = 0
    /\ vValue = <<>> /\ nTotalLower = 0 /\ coinLowestLarger = <<>>
    /\ approxTarget = 0 /\ vfBest = <<>> /\ nBest = 0 /\ nRep = 0
    /\ PsbtIdle
    /\ BnBIdle
    /\ DbIdle

NextKnap == KnapCall \/ ApproxRepetition \/ ApproxAgain \/ KnapReturn

SpecKnap == InitKnap /\ [][NextKnap]_vars

\* ---- calls that use up the iterations of the search

\* a pool of the even effective values 2, 4, .., 40 and a second unit of 2,
\* with or without a unit of 1, and an odd target of about half of the pool:
\* more than TOTAL_TRIES iterations are needed to go through the selections
LongSearchPool(withOne) ==
    [i \in 1..(IF withOne THEN 22 ELSE 21) |->
        Unit(i, IF i <= 20 THEN 2 * i ELSE IF i = 21 THEN 2 ELSE 1, <<0, 0>>)]

InitLongSearch ==
    /\ utxo_pool \in {LongSearchPool(FALSE), LongSearchPool(TRUE)}
    /\ target_value = 211
    /\ not_input_fees = 0
    /\ cost_of_change = 0
    /\ BnBEntry

\* the calls of both solvers whose loops are followed to their ends
InitBounded == InitLongSearch \/ InitKnap

NextBounded == NextBnB \/ NextKnap

SpecBounded == InitBounded /\ [][NextBounded]_vars

\* ---- the calls of both solvers

InitSelect == InitBnB \/ InitKnap

SpecSelect == InitSelect /\ [][NextBounded]_vars

-----------------------------------------------------------------------------
(* The Berkeley environments and databases, src/wallet/db.cpp              *)
(*                                                                         *)
(* Threads call into one wallet directory.  A step is what a thread does   *)
(* without another thread being able to come between: the statements of a  *)
(* critical section of cs_db up to the next access to m_refcount, which    *)
(* Acquire and Release change without the mutex, or one such access.  An   *)
(* environment whose use count is 0 has expired: its destructor has been   *)
(* entered by the thread that released the last shared_ptr and has not yet *)
(* passed its LOCK(cs_db).                                                 *)

otherVars == <<psbtVars, selVars, bnbVars, knapVars>>

\* no assertion has failed
Running == \A t \in DbThreads : db_pc[t] # "abort"

First(S) == CHOOSE x \in S : \A y \in S : x <= y

\* the memory a new environment or database object can be made in
FreshEnvs == { e \in Envs : env_life[e] \in {"none", "gone"} }
FreshDbs == { d \in Dbs : db_env[d] = 0 }

\* std::weak_ptr::lock of the entry made from environment e
WeakLock(e) == IF use_count[e] > 0 THEN e ELSE 0

\* ~BerkeleyDatabase is running on d
BeingDestroyed(d) == \E t \in DbThreads : db_local[t].caller = "dtor" /\ db_local[t].db = d

\* a thread is in a call on d
InUse(d) == \E t \in DbThreads : db_pc[t] # "idle" /\ db_local[t].db = d

\* d can be the object of a call
Callable(d) == db_env[d] # 0 /\ ~BeingDestroyed(d)

RECURSIVE SumRefCount(_)
SumRefCount(S) == IF S = {} THEN 0 ELSE LET d == First(S) IN m_refcount[d] + SumRefCount(S \ {d})

\* `if (m_active_txn) m_active_txn->abort();` of Close and Release
\* (src/wallet/db.cpp:706-708, 751-753): what the pointer is afterwards.
\* The pointer is not set to null.
AbortTxn(txn) == IF txn = "null" THEN "null" ELSE "aborted"

\* a call through the pointer of a transaction that was aborted is undefined:
\* the thread crashes or the call returns
TxnUB == {"crash", "returns"}

\* GetWalletEnv, src/wallet/db.cpp:84-96, all of it under cs_db
GetWalletEnv ==
    \E t \in DbThreads :
        /\ Running /\ db_pc[t] = "idle" /\ cs_db = 0
        /\ IF g_dbenvs = 0
           THEN /\ FreshEnvs # {}
                /\ LET env == First(FreshEnvs) IN
                      /\ g_dbenvs' = env
                      /\ use_count' = [use_count EXCEPT ![env] = 1]
                      /\ env_life' = [env_life EXCEPT ![env] = "live"]
                      /\ fDbEnvInit' = [fDbEnvInit EXCEPT ![env] = FALSE]
                      /\ m_databases' = [m_databases EXCEPT ![env] = {}]
                      /\ db_local' = [db_local EXCEPT ![t].env = env]
           ELSE /\ LET env == WeakLock(g_dbenvs) IN
                      /\ use_count' = IF env = 0 THEN use_count
                                      ELSE [use_count EXCEPT ![env] = @ + 1]
                      /\ db_local' = [db_local EXCEPT ![t].env = env]
                /\ UNCHANGED <<g_dbenvs, env_life, fDbEnvInit, m_databases>>
        /\ db_pc' = [db_pc EXCEPT ![t] = "env"]
        /\ UNCHANGED <<cs_db, db_env, m_refcount, m_db, m_active_txn, otherVars>>

\* the caller of GetWalletEnv lets go of the shared_ptr it was returned; when
\* it was the last one, the thread enters ~BerkeleyEnvironment
\* (src/wallet/db.cpp:149) and comes to its LOCK(cs_db)
ReleaseEnv ==
    \E t \in DbThreads :
        /\ Running /\ db_pc[t] = "env"
        /\ LET env == db_local[t].env IN
              IF env = 0
              THEN /\ db_pc' = [db_pc EXCEPT ![t] = "idle"]
                   /\ db_local' = [db_local EXCEPT ![t] = NoLocals]
                   /\ UNCHANGED use_count
              ELSE /\ use_count' = [use_count EXCEPT ![env] = @ - 1]
                   /\ IF use_count[env] = 1
                      THEN /\ db_pc' = [db_pc EXCEPT ![t] = "env_dtor"]
                           /\ UNCHANGED db_local
                      ELSE /\ db_pc' = [db_pc EXCEPT ![t] = "idle"]
                           /\ db_local' = [db_local EXCEPT ![t] = NoLocals]
        /\ UNCHANGED <<cs_db, g_dbenvs, env_life, fDbEnvInit, m_databases, db_env,
                       m_refcount, m_db, m_active_txn, otherVars>>

\* BerkeleyEnvironment::Close, src/wallet/db.cpp:102-135: the handles it
\* leaves open and whether its assertions hold
CloseOf(env) ==
    IF ~fDbEnvInit[env]
    THEN [m_db |-> m_db, ok |-> TRUE]
    ELSE [m_db |-> [d \in Dbs |-> IF d \in m_databases[env] THEN FALSE ELSE m_db[d]],
          ok |-> \A d \in m_databases[env] : m_refcount[d] = 0]

\* ~BerkeleyEnvironment, src/wallet/db.cpp:149-154
EnvDestructor ==
    \E t \in DbThreads :
        /\ Running /\ db_pc[t] = "env_dtor" /\ cs_db = 0
        /\ LET env == db_local[t].env
               c == CloseOf(env) IN
              /\ g_dbenvs' = 0
              /\ m_db' = c.m_db
              /\ fDbEnvInit' = [fDbEnvInit EXCEPT ![env] = FALSE]
              /\ env_life' = [env_life EXCEPT ![env] = "gone"]
              /\ db_pc' = [db_pc EXCEPT ![t] = IF c.ok THEN "idle" ELSE "abort"]
        /\ db_local' = [db_local EXCEPT ![t] = NoLocals]
        /\ UNCHANGED <<cs_db, use_count, m_databases, db_env, m_refcount, m_active_txn, otherVars>>

\* BerkeleyDatabase::BerkeleyDatabase, src/wallet/db.h:285-290, with the
\* pointer GetWalletEnv returned; every database has a file name of its own
MakeDatabase ==
    \E t \in DbThreads :
        /\ Running /\ db_pc[t] = "env" /\ db_local[t].env # 0 /\ FreshDbs # {}
        /\ LET env == db_local[t].env
               d == First(FreshDbs) IN
              /\ db_env' = [db_env EXCEPT ![d] = env]
              /\ m_databases' = [m_databases EXCEPT ![env] = @ \cup {d}]
              /\ m_refcount' = [m_refcount EXCEPT ![d] = 0]
              /\ m_db' = [m_db EXCEPT ![d] = FALSE]
              /\ m_active_txn' = [m_active_txn EXCEPT ![d] = "null"]
        /\ db_pc' = [db_pc EXCEPT ![t] = "idle"]
        /\ db_local' = [db_local EXCEPT ![t] = NoLocals]
        /\ UNCHANGED <<cs_db, g_dbenvs, use_count, env_life, fDbEnvInit,
                       otherVars>>

\* BerkeleyBatch::BerkeleyBatch, src/wallet/db.cpp:342: database.Open, which
\* is BerkeleyDatabase::Open (369-422) with its critical section
BatchOpen ==
    \E t \in DbThreads, d \in Dbs :
        /\ Running /\ db_pc[t] = "idle" /\ Callable(d) /\ cs_db = 0
        /\ fDbEnvInit' = [fDbEnvInit EXCEPT ![db_env[d]] = TRUE]
        /\ m_db' = [m_db EXCEPT ![d] = TRUE]
        /\ db_pc' = [db_pc EXCEPT ![t] = "acquire"]
        /\ db_local' = [db_local EXCEPT ![t].db = d]
        /\ UNCHANGED <<cs_db, g_dbenvs, use_count, env_life, m_databases, db_env,
                       m_refcount, m_active_txn, otherVars>>

\* src/wallet/db.cpp:343-347: database.Acquire (759-762) and pdb = m_db.get()
BatchAcquire ==
    \E t \in DbThreads :
        /\ Running /\ db_pc[t] = "acquire"
        /\ LET d == db_local[t].db IN
              /\ m_refcount' = [m_refcount EXCEPT ![d] = @ + 1]
              /\ db_local' = [db_local EXCEPT ![t].pdb = m_db[d]]
        /\ db_pc' = [db_pc EXCEPT ![t] = "batch"]
        /\ UNCHANGED <<cs_db, g_dbenvs, use_count, env_life, fDbEnvInit, m_databases,
                       db_env, m_db, m_active_txn, otherVars>>

\* BerkeleyBatch::Close, src/wallet/db.cpp:458-471, with Release (749-757)
BatchClose ==
    \E t \in DbThreads, ub \in TxnUB :
        /\ Running /\ db_pc[t] = "batch"
        /\ LET d == db_local[t].db IN
              IF db_local[t].pdb /\ m_active_txn[d] = "aborted" /\ ub = "crash"
              THEN /\ db_pc' = [db_pc EXCEPT ![t] = "abort"]
                   /\ UNCHANGED <<m_refcount, m_active_txn, db_local>>
              ELSE /\ m_refcount' = IF db_local[t].pdb
                                    THEN [m_refcount EXCEPT ![d] = @ - 1]
                                    ELSE m_refcount
                   /\ m_active_txn' = IF db_local[t].pdb
                                      THEN [m_active_txn EXCEPT ![d] = AbortTxn(@)]
                                      ELSE m_active_txn
                   /\ db_pc' = [db_pc EXCEPT ![t] = "idle"]
                   /\ db_local' = [db_local EXCEPT ![t] = NoLocals]
        /\ UNCHANGED <<cs_db, g_dbenvs, use_count, env_life, fDbEnvInit, m_databases,
                       db_env, m_db, otherVars>>

\* ~BerkeleyDatabase, src/wallet/db.cpp:357-359: Close (704-718) and the test
\* of fDbEnvInit in BerkeleyEnvironment::Flush (607-608); no batch and no
\* call is on a database that is destroyed
DatabaseDestructor ==
    \E t \in DbThreads, d \in Dbs, ub \in TxnUB :
        /\ Running /\ db_pc[t] = "idle" /\ db_env[d] # 0 /\ ~InUse(d)
        /\ db_local' = [db_local EXCEPT ![t] = [NoLocals EXCEPT !.env = db_env[d],
                                                           !.db = d, !.caller = "dtor"]]
        /\ IF m_active_txn[d] = "aborted" /\ ub = "crash"
           THEN /\ db_pc' = [db_pc EXCEPT ![t] = "abort"]
                /\ UNCHANGED m_active_txn
           ELSE /\ db_pc' = [db_pc EXCEPT ![t] = IF fDbEnvInit[db_env[d]]
                                                 THEN "flush_lock" ELSE "dtor_lock"]
                /\ m_active_txn' = [m_active_txn EXCEPT ![d] = AbortTxn(@)]
        /\ UNCHANGED <<cs_db, g_dbenvs, use_count, env_life, fDbEnvInit, m_databases,
                       db_env, m_refcount, m_db, otherVars>>

\* BerkeleyEnvironment::Flush, src/wallet/db.cpp:609-611: LOCK(cs_db) and the
\* start of the loop over m_databases
FlushLock ==
    \E t \in DbThreads :
        /\ Running /\ db_pc[t] = "flush_lock" /\ cs_db = 0
        /\ cs_db' = t
        /\ db_local' = [db_local EXCEPT ![t].filenames = m_databases[db_local[t].env]]
        /\ db_pc' = [db_pc EXCEPT ![t] = "flush_read"]
        /\ UNCHANGED <<g_dbenvs, use_count, env_life, fDbEnvInit, m_databases, db_env,
                       m_refcount, m_db, m_active_txn, otherVars>>

\* src/wallet/db.cpp:611-613: the loop reads the m_refcount of the next
\* database, or is over and Flush returns to its caller
FlushRead ==
    \E t \in DbThreads :
        /\ Running /\ db_pc[t] = "flush_read"
        /\ LET l == db_local[t] IN
              IF l.filenames # {}
              THEN /\ db_local' = [db_local EXCEPT
                                      ![t].nRefCount = m_refcount[First(l.filenames)]]
                   /\ db_pc' = [db_pc EXCEPT ![t] = "flush_closedb"]
                   /\ UNCHANGED cs_db
              ELSE CASE l.caller = "dtor" ->
                            /\ cs_db' = 0
                            /\ db_pc' = [db_pc EXCEPT ![t] = "dtor_lock"]
                            /\ UNCHANGED db_local
                     [] l.caller = "rewrite" ->
                            /\ cs_db' = 0
                            /\ db_pc' = [db_pc EXCEPT ![t] = "idle"]
                            /\ db_local' = [db_local EXCEPT ![t] = NoLocals]
                     [] l.caller = "reload" ->
                            /\ db_pc' = [db_pc EXCEPT ![t] = "reload_close"]
                            /\ UNCHANGED <<cs_db, db_local>>
        /\ UNCHANGED <<g_dbenvs, use_count, env_life, fDbEnvInit, m_databases, db_env,
                       m_refcount, m_db, m_active_txn, otherVars>>

\* src/wallet/db.cpp:615-624: CloseDb (473-486) when the count read was 0
FlushCloseDb ==
    \E t \in DbThreads :
        /\ Running /\ db_pc[t] = "flush_closedb"
        /\ LET l == db_local[t]
               d == First(l.filenames) IN
              /\ IF l.nRefCount = 0
                 THEN /\ m_db' = [m_db EXCEPT ![d] = FALSE]
                 ELSE UNCHANGED m_db
              /\ db_local' = [db_local EXCEPT ![t].filenames = @ \ {d}]
        /\ db_pc' = [db_pc EXCEPT ![t] = "flush_read"]
        /\ UNCHANGED <<cs_db, g_dbenvs, use_count, env_life, fDbEnvInit, m_databases,
                       db_env, m_refcount, m_active_txn, otherVars>>

\* ~BerkeleyDatabase, src/wallet/db.cpp:360-366; when env was the last
\* shared_ptr, ~BerkeleyEnvironment (149-154) runs inside the critical
\* section, with no database left in m_databases
DatabaseErase ==
    \E t \in DbThreads :
        /\ Running /\ db_pc[t] = "dtor_lock" /\ cs_db = 0
        /\ LET env == db_local[t].env
               d == db_local[t].db
               last == use_count[env] = 1 IN
              /\ m_databases' = [m_databases EXCEPT ![env] = @ \ {d}]
              /\ g_dbenvs' = 0
              /\ use_count' = [use_count EXCEPT ![env] = @ - 1]
              /\ fDbEnvInit' = IF last THEN [fDbEnvInit EXCEPT ![env] = FALSE]
                               ELSE fDbEnvInit
              /\ env_life' = IF last THEN [env_life EXCEPT ![env] = "gone"] ELSE env_life
              /\ db_env' = [db_env EXCEPT ![d] = 0]
              /\ m_db' = [m_db EXCEPT ![d] = FALSE]
        /\ db_pc' = [db_pc EXCEPT ![t] = "idle"]
        /\ db_local' = [db_local EXCEPT ![t] = NoLocals]
        /\ UNCHANGED <<cs_db, m_refcount, m_active_txn, otherVars>>

\* BerkeleyDatabase::Rewrite, src/wallet/db.cpp:520-523: the critical section
\* is entered with m_refcount == 0 (the other case sleeps and tries again)
RewriteLock ==
    \E t \in DbThreads, d \in Dbs :
        /\ Running /\ db_pc[t] = "idle" /\ Callable(d) /\ cs_db = 0
        /\ m_refcount[d] = 0
        /\ cs_db' = t
        /\ db_local' = [db_local EXCEPT ![t] = [NoLocals EXCEPT !.env = db_env[d],
                                                           !.db = d, !.caller = "rewrite"]]
        /\ db_pc' = [db_pc EXCEPT ![t] = "rewrite_closedb"]
        /\ UNCHANGED <<g_dbenvs, use_count, env_life, fDbEnvInit, m_databases, db_env,
                       m_refcount, m_db, m_active_txn, otherVars>>

\* src/wallet/db.cpp:525: env->CloseDb(strFile)
RewriteCloseDb ==
    \E t \in DbThreads :
        /\ Running /\ db_pc[t] = "rewrite_closedb"
        /\ LET d == db_local[t].db IN
              /\ m_db' = [m_db EXCEPT ![d] = FALSE]
        /\ db_pc' = [db_pc EXCEPT ![t] = "rewrite_open"]
        /\ UNCHANGED <<cs_db, g_dbenvs, use_count, env_life, fDbEnvInit, m_databases,
                       db_env, m_refcount, db_local, m_active_txn, otherVars>>

\* src/wallet/db.cpp:532-533: Open("r") and Acquire()
RewriteOpen ==
    \E t \in DbThreads :
        /\ Running /\ db_pc[t] = "rewrite_open"
        /\ LET d == db_local[t].db IN
              /\ fDbEnvInit' = [fDbEnvInit EXCEPT ![db_env[d]] = TRUE]
              /\ m_db' = [m_db EXCEPT ![d] = TRUE]
              /\ m_refcount' = [m_refcount EXCEPT ![d] = @ + 1]
        /\ db_pc' = [db_pc EXCEPT ![t] = "rewrite_copy"]
        /\ UNCHANGED <<cs_db, g_dbenvs, use_count, env_life, m_databases, db_env,
                       db_local, m_active_txn, otherVars>>

\* src/wallet/db.cpp:534-596: the copy succeeds or not; when it does,
\* Release() and Close(), which calls BerkeleyEnvironment::Flush; each of the
\* two aborts the transaction m_active_txn points to, the second or both
\* through a pointer that dangles
RewriteCopy ==
    \E t \in DbThreads, fSuccess \in BOOLEAN, ub \in TxnUB :
        /\ Running /\ db_pc[t] = "rewrite_copy"
        /\ LET l == db_local[t] IN
              IF fSuccess /\ m_active_txn[l.db] # "null" /\ ub = "crash"
              THEN /\ db_pc' = [db_pc EXCEPT ![t] = "abort"]
                   /\ UNCHANGED <<cs_db, db_local, m_refcount, m_active_txn>>
              ELSE IF fSuccess
              THEN /\ m_refcount' = [m_refcount EXCEPT ![l.db] = @ - 1]
                   /\ m_active_txn' = [m_active_txn EXCEPT ![l.db] = AbortTxn(@)]
                   /\ db_local' = [db_local EXCEPT ![t].filenames = m_databases[l.env]]
                   /\ db_pc' = [db_pc EXCEPT ![t] = "flush_read"]
                   /\ UNCHANGED cs_db
              ELSE /\ cs_db' = 0
                   /\ db_local' = [db_local EXCEPT ![t] = NoLocals]
                   /\ db_pc' = [db_pc EXCEPT ![t] = "idle"]
                   /\ UNCHANGED <<m_refcount, m_active_txn>>
        /\ UNCHANGED <<g_dbenvs, use_count, env_life, fDbEnvInit, m_databases, db_env,
                       m_db, otherVars>>

\* BerkeleyDatabase::Backup, src/wallet/db.cpp:664-673
BackupLock ==
    \E t \in DbThreads, d \in Dbs :
        /\ Running /\ db_pc[t] = "idle" /\ Callable(d) /\ cs_db = 0
        /\ m_refcount[d] = 0
        /\ cs_db' = t
        /\ db_local' = [db_local EXCEPT ![t] = [NoLocals EXCEPT !.env = db_env[d],
                                                           !.db = d, !.caller = "backup"]]
        /\ db_pc' = [db_pc EXCEPT ![t] = "backup_closedb"]
        /\ UNCHANGED <<g_dbenvs, use_count, env_life, fDbEnvInit, m_databases, db_env,
                       m_refcount, m_db, m_active_txn, otherVars>>

\* src/wallet/db.cpp:675-697: env->CloseDb(strFile), the copy, the return
BackupCloseDb ==
    \E t \in DbThreads :
        /\ Running /\ db_pc[t] = "backup_closedb"
        /\ LET d == db_local[t].db IN
              /\ m_db' = [m_db EXCEPT ![d] = FALSE]
        /\ cs_db' = 0
        /\ db_local' = [db_local EXCEPT ![t] = NoLocals]
        /\ db_pc' = [db_pc EXCEPT ![t] = "idle"]
        /\ UNCHANGED <<g_dbenvs, use_count, env_life, fDbEnvInit, m_databases, db_env,
                       m_refcount, m_active_txn, otherVars>>

\* BerkeleyDatabase::PeriodicFlush, src/wallet/db.cpp:636-645: TRY_LOCK got
\* the mutex and the counts of the environment's databases add up to 0
PeriodicFlushLock ==
    \E t \in DbThreads, d \in Dbs :
        /\ Running /\ db_pc[t] = "idle" /\ Callable(d) /\ cs_db = 0
        /\ SumRefCount(m_databases[db_env[d]]) = 0
        /\ cs_db' = t
        /\ db_local' = [db_local EXCEPT ![t] = [NoLocals EXCEPT !.env = db_env[d],
                                                           !.db = d, !.caller = "periodic"]]
        /\ db_pc' = [db_pc EXCEPT ![t] = "periodic_closedb"]
        /\ UNCHANGED <<g_dbenvs, use_count, env_life, fDbEnvInit, m_databases, db_env,
                       m_refcount, m_db, m_active_txn, otherVars>>

\* src/wallet/db.cpp:652-657: env->CloseDb(strFile) and m_refcount = 0
PeriodicFlushCloseDb ==
    \E t \in DbThreads :
        /\ Running /\ db_pc[t] = "periodic_closedb"
        /\ LET d == db_local[t].db IN
              /\ m_db' = [m_db EXCEPT ![d] = FALSE]
              /\ m_refcount' = [m_refcount EXCEPT ![d] = 0]
        /\ cs_db' = 0
        /\ db_local' = [db_local EXCEPT ![t] = NoLocals]
        /\ db_pc' = [db_pc EXCEPT ![t] = "idle"]
        /\ UNCHANGED <<g_dbenvs, use_count, env_life, fDbEnvInit, m_databases, db_env,
                       m_active_txn, otherVars>>

\* BerkeleyEnvironment::ReloadDbEnv, src/wallet/db.cpp:491-503: the wait on
\* m_db_in_use is over, with cs_db held, when no database has a count above 0
ReloadWait ==
    \E t \in DbThreads, d \in Dbs :
        /\ Running /\ db_pc[t] = "idle" /\ Callable(d) /\ cs_db = 0
        /\ \A x \in m_databases[db_env[d]] : ~(m_refcount[x] > 0)
        /\ cs_db' = t
        /\ db_local' = [db_local EXCEPT ![t] =
                           [NoLocals EXCEPT !.env = db_env[d], !.db = d, !.caller = "reload",
                                            !.filenames = m_databases[db_env[d]]]]
        /\ db_pc' = [db_pc EXCEPT ![t] = "reload_closedb"]
        /\ UNCHANGED <<g_dbenvs, use_count, env_life, fDbEnvInit, m_databases, db_env,
                       m_refcount, m_db, m_active_txn, otherVars>>

\* src/wallet/db.cpp:505-509: CloseDb(filename) for the next file name, then
\* Flush() and its test of fDbEnvInit
ReloadCloseDb ==
    \E t \in DbThreads :
        /\ Running /\ db_pc[t] = "reload_closedb"
        /\ LET l == db_local[t] IN
              IF l.filenames # {}
              THEN LET d == First(l.filenames) IN
                      /\ m_db' = [m_db EXCEPT ![d] = FALSE]
                      /\ db_local' = [db_local EXCEPT ![t].filenames = @ \ {d}]
                      /\ UNCHANGED db_pc
              ELSE /\ db_local' = [db_local EXCEPT ![t].filenames = m_databases[l.env]]
                   /\ db_pc' = [db_pc EXCEPT ![t] = IF fDbEnvInit[l.env] THEN "flush_read"
                                                    ELSE "reload_close"]
                   /\ UNCHANGED m_db
        /\ UNCHANGED <<cs_db, g_dbenvs, use_count, env_life, fDbEnvInit, m_databases,
                       db_env, m_refcount, m_active_txn, otherVars>>

\* src/wallet/db.cpp:510-513: Close(), Reset(), Open(true)
ReloadClose ==
    \E t \in DbThreads :
        /\ Running /\ db_pc[t] = "reload_close"
        /\ LET env == db_local[t].env
               c == CloseOf(env) IN
              /\ IF c.ok
                 THEN /\ m_db' = c.m_db
                      /\ fDbEnvInit' = [fDbEnvInit EXCEPT ![env] = TRUE]
                      /\ cs_db' = 0
                      /\ db_local' = [db_local EXCEPT ![t] = NoLocals]
                      /\ db_pc' = [db_pc EXCEPT ![t] = "idle"]
                 ELSE /\ db_pc' = [db_pc EXCEPT ![t] = "abort"]
                      /\ UNCHANGED <<m_db, fDbEnvInit, cs_db, db_local>>
        /\ UNCHANGED <<g_dbenvs, use_count, env_life, m_databases, db_env, m_refcount,
                       m_active_txn, otherVars>>

\* BerkeleyDatabase::TxnBegin, src/wallet/db.h:372-381; ptxn tells whether
\* env->TxnBegin returned a transaction.  No mutex is taken.
TxnBegin ==
    \E t \in DbThreads, d \in Dbs, ptxn \in BOOLEAN :
        /\ Running /\ db_pc[t] = "idle" /\ Callable(d)
        /\ LET ret == m_db[d] /\ m_active_txn[d] = "null" /\ ptxn IN
              /\ m_active_txn' = IF ret THEN [m_active_txn EXCEPT ![d] = "active"]
                                 ELSE m_active_txn
              /\ db_local' = [db_local EXCEPT ![t] =
                                 [NoLocals EXCEPT !.db = d, !.caller = "TxnBegin",
                                                  !.ret = ret]]
        /\ db_pc' = [db_pc EXCEPT ![t] = "txn_ret"]
        /\ UNCHANGED <<cs_db, g_dbenvs, use_count, env_life, fDbEnvInit, m_databases,
                       db_env, m_refcount, m_db, otherVars>>

\* BerkeleyDatabase::TxnCommit and ::TxnAbort, src/wallet/db.h:383-399, which
\* differ in the call they make on the transaction; ok tells whether that
\* call returned 0
TxnEnd(t, d, caller, ok, ub) ==
        /\ IF ~m_db[d] \/ m_active_txn[d] = "null"
           THEN /\ db_pc' = [db_pc EXCEPT ![t] = "txn_ret"]
                /\ db_local' = [db_local EXCEPT ![t] =
                                   [NoLocals EXCEPT !.db = d, !.caller = caller]]
                /\ UNCHANGED m_active_txn
           ELSE IF m_active_txn[d] = "aborted" /\ ub = "crash"
           THEN /\ db_pc' = [db_pc EXCEPT ![t] = "abort"]
                /\ UNCHANGED <<db_local, m_active_txn>>
           ELSE /\ db_pc' = [db_pc EXCEPT ![t] = "txn_ret"]
                /\ db_local' = [db_local EXCEPT ![t] =
                                   [NoLocals EXCEPT !.db = d, !.caller = caller,
                                                    !.ret = ok]]
                /\ m_active_txn' = [m_active_txn EXCEPT ![d] = "null"]
        /\ UNCHANGED <<cs_db, g_dbenvs, use_count, env_life, fDbEnvInit, m_databases,
                       db_env, m_refcount, m_db, otherVars>>

TxnCommit ==
    \E t \in DbThreads, d \in Dbs, ok \in BOOLEAN, ub \in TxnUB :
        /\ Running /\ db_pc[t] = "idle" /\ Callable(d)
        /\ TxnEnd(t, d, "TxnCommit", ok, ub)

TxnAbort ==
    \E t \in DbThreads, d \in Dbs, ok \in BOOLEAN, ub \in TxnUB :
        /\ Running /\ db_pc[t] = "idle" /\ Callable(d)
        /\ TxnEnd(t, d, "TxnAbort", ok, ub)

\* the call of TxnBegin, TxnCommit or TxnAbort returns to its caller
TxnReturn ==
    \E t \in DbThreads :
        /\ Running /\ db_pc[t] = "txn_ret"
        /\ db_pc' = [db_pc EXCEPT ![t] = "idle"]
        /\ db_local' = [db_local EXCEPT ![t] = NoLocals]
        /\ UNCHANGED <<cs_db, g_dbenvs, use_count, env_life, fDbEnvInit, m_databases,
                       db_env, m_refcount, m_db, m_active_txn, otherVars>>

InitDb == PsbtIdle /\ WalletIdle

NextDb ==
    \/ GetWalletEnv \/ ReleaseEnv \/ EnvDestructor \/ MakeDatabase
    \/ BatchOpen \/ BatchAcquire \/ BatchClose
    \/ DatabaseDestructor \/ FlushLock \/ FlushRead \/ FlushCloseDb \/ DatabaseErase
    \/ RewriteLock \/ RewriteCloseDb \/ RewriteOpen \/ RewriteCopy
    \/ BackupLock \/ BackupCloseDb
    \/ PeriodicFlushLock \/ PeriodicFlushCloseDb
    \/ ReloadWait \/ ReloadCloseDb \/ ReloadClose

SpecDb == InitDb /\ [][NextDb]_vars

\* ---- the databases with their transactions: the calls that make, open
\* and destroy a database, each of which opens or closes its handle or
\* aborts its transaction, and the calls on the transaction

NextTxn ==
    \/ GetWalletEnv \/ MakeDatabase
    \/ BatchOpen \/ BatchAcquire \/ BatchClose
    \/ DatabaseDestructor \/ FlushLock \/ FlushRead \/ FlushCloseDb \/ DatabaseErase
    \/ TxnBegin \/ TxnCommit \/ TxnAbort \/ TxnReturn

SpecTxn == InitDb /\ [][NextTxn]_vars

-----------------------------------------------------------------------------
(* Properties of SelectCoinsBnB                                            *)

RECURSIVE EffectiveSum(_)
EffectiveSum(S) ==
    IF S = {} THEN 0
    ELSE LET u == CHOOSE x \in S : TRUE
         IN  u.effective_value + EffectiveSum(S \ {u})

RECURSIVE WasteSum(_)
WasteSum(S) ==
    IF S = {} THEN 0
    ELSE LET u == CHOOSE x \in S : TRUE IN Waste(u) + WasteSum(S \ {u})

\* the waste metric of a selection S of units
SelectionWaste(S) == WasteSum(S) + (EffectiveSum(S) - actual_target)

\* the selections of the pool whose effective value is within the range
ValidSelections ==
    { S \in SUBSET CoinsOf(utxo_pool) :
        /\ actual_target <= EffectiveSum(S)
        /\ EffectiveSum(S) <= actual_target + cost_of_change }

IsMinimal(S) == \A T \in ValidSelections : SelectionWaste(S) <= SelectionWaste(T)

\* C3: when SelectCoinsBnB returns true, the effective values of the
\* returned set sum to at least actual_target = target_value + not_input_fees
\* and to at most actual_target + cost_of_change.
C3_BnBRange ==
    bnb_pc = "true" =>
        /\ actual_target = target_value + not_input_fees
        /\ actual_target <= EffectiveSum(out_set)
        /\ EffectiveSum(out_set) <= actual_target + cost_of_change

C3_Witness ==
    /\ bnb_pc = "true"
    /\ Cardinality(out_set) >= 2
    /\ EffectiveSum(out_set) > actual_target
    /\ \E u \in out_set : u.fee < u.long_term_fee

\* C4 as stated: when the search ends before TOTAL_TRIES iterations and
\* SelectCoinsBnB returns true, the waste of the returned set is the least
\* waste of all selections within the range, whatever the fees are.
C4_AsStated ==
    (bnb_pc = "true" /\ tries < TOTAL_TRIES) => IsMinimal(out_set)

\* no unit costs less to spend now than in the long term
NoCheapUnit == \A i \in 1..Len(utxo_pool) : Waste(utxo_pool[i]) >= 0

\* units with the same effective value and fee have the same long-term fee
SameFeeSameWaste ==
    \A i, j \in 1..Len(utxo_pool) :
        (utxo_pool[i].effective_value = utxo_pool[j].effective_value
           /\ utxo_pool[i].fee = utxo_pool[j].fee)
        => utxo_pool[i].long_term_fee = utxo_pool[j].long_term_fee

\* C4: when the search ends before TOTAL_TRIES iterations and SelectCoinsBnB
\* returns true, the waste of the returned set is the least waste of all
\* selections within the range, provided that every unit has
\* fee >= long_term_fee and that units with the same effective value and
\* fee have the same long_term_fee.
C4_BnBOptimal ==
    (bnb_pc = "true" /\ tries < TOTAL_TRIES /\ NoCheapUnit /\ SameFeeSameWaste)
        => IsMinimal(out_set)

C4_Witness ==
    /\ bnb_pc = "true" /\ tries < TOTAL_TRIES /\ NoCheapUnit /\ SameFeeSameWaste
    /\ \E S, T \in ValidSelections : SelectionWaste(S) < SelectionWaste(T)
    /\ \E i, j \in 1..Len(utxo_pool) :
          /\ i < j
          /\ utxo_pool[i].effective_value = utxo_pool[j].effective_value
          /\ utxo_pool[i].fee = utxo_pool[j].fee
    /\ \E u \in CoinsOf(utxo_pool) : Waste(u) > 0
    /\ IsMinimal(out_set)

\* C14: once SelectCoinsBnB is past its first lines with a pool whose
\* effective values together are below actual_target, it has returned false,
\* with no iteration of the search made and out_set empty.
C14_InsufficientFunds ==
    (bnb_pc \notin {"idle", "call"} /\ EffectiveTotal(utxo_pool) < actual_target)
        => /\ bnb_pc = "false"
           /\ tries = 0
           /\ out_set = {}

C14_Witness ==
    /\ bnb_pc = "false"
    /\ Len(utxo_pool) = 2
    /\ EffectiveTotal(utxo_pool) < actual_target
    /\ not_input_fees > 0

\* C15: when the pool's effective values together are at least
\* actual_target and the search has ended before TOTAL_TRIES iterations,
\* SelectCoinsBnB returns false exactly when no selection of the pool has an
\* effective value within [actual_target, actual_target + cost_of_change].
C15_NoSolutionOnlyWhenNone ==
    (/\ bnb_pc \in {"true", "false"}
     /\ EffectiveTotal(utxo_pool) >= actual_target
     /\ tries < TOTAL_TRIES)
        => (bnb_pc = "false" <=> ValidSelections = {})

C15_Witness ==
    /\ bnb_pc = "false"
    /\ EffectiveTotal(utxo_pool) >= actual_target
    /\ tries > Len(utxo_pool)
    /\ Len(utxo_pool) = MaxPool
    /\ ValidSelections = {}

\* the call is the one described by c
IsCall(c) ==
    /\ { utxo_pool[i].effective_value : i \in 1..Len(utxo_pool) }
          = { c.values[i] : i \in 1..Len(c.values) }
    /\ Len(utxo_pool) = Len(c.values)
    /\ target_value = c.target_value /\ not_input_fees = 0
    /\ cost_of_change = c.cost_of_change

\* SelectCoinsBnB has returned the units of these effective values
ReturnedValues(vs) ==
    /\ bnb_pc = "true"
    /\ Cardinality(out_set) = Cardinality(vs)
    /\ { u.effective_value : u \in out_set } = vs

\* the iteration finds a selection within the range, of the same waste as
\* the best one found before
TieFound ==
    /\ bnb_pc = "loop" /\ tries < TOTAL_TRIES
    /\ InRange
    /\ best_selection # <<>>
    /\ CurrentWaste = best_waste

\* C16 as stated: with effective values 8, 5, 3, 2, fee = long_term_fee,
\* actual_target 10 and cost_of_change 0 SelectCoinsBnB returns the units 8
\* and 2; and a selection within the range of the same waste as the best one
\* found before does not replace it.
C16_AsStated ==
    /\ []((IsCall(ExactMatchCall) /\ bnb_pc \in {"true", "false"})
             => ReturnedValues({8, 2}))
    /\ [][(TieFound /\ tries' # tries) => best_selection' = best_selection]_vars

\* C16: with effective values 8, 5, 3, 2, fee = long_term_fee, actual_target
\* 10 and cost_of_change 0 SelectCoinsBnB returns the units 5, 3 and 2, of
\* effective value 10; and a selection within the range of the same waste as
\* the best one found before replaces it, so that of the selections with
\* the least waste the one reached last is returned.
C16_ExactMatch ==
    /\ []((IsCall(ExactMatchCall) /\ bnb_pc \in {"true", "false"})
             => (ReturnedValues({5, 3, 2}) /\ EffectiveSum(out_set) = actual_target))
    /\ [][(TieFound /\ tries' # tries)
            => (best_selection' = curr_selection /\ best_selection' # best_selection)]_vars

C16_Witness ==
    /\ IsCall(ExactMatchCall)
    /\ ReturnedValues({5, 3, 2})
    /\ \E S \in ValidSelections :
          /\ { u.effective_value : u \in S } = {8, 2}
          /\ SelectionWaste(S) = SelectionWaste(out_set)

\* C17 as stated: with effective values 10, 7, 5, 3, fee = long_term_fee,
\* actual_target 11 and cost_of_change 2 SelectCoinsBnB returns the units 10
\* and 3.
C17_AsStated ==
    (IsCall(ChangeWindowCall) /\ bnb_pc \in {"true", "false"})
        => ReturnedValues({10, 3})

\* C17: with effective values 10, 7, 5, 3, fee = long_term_fee, actual_target
\* 11 and cost_of_change 2 SelectCoinsBnB returns the units 7 and 5, of
\* effective value 12, whose waste is below that of every other selection
\* within the range, the units 10 and 3 among them.
C17_ChangeWindow ==
    (IsCall(ChangeWindowCall) /\ bnb_pc \in {"true", "false"})
        => /\ ReturnedValues({7, 5})
           /\ EffectiveSum(out_set) = 12
           /\ \A S \in ValidSelections :
                 S # out_set => SelectionWaste(out_set) < SelectionWaste(S)

C17_Witness ==
    /\ IsCall(ChangeWindowCall)
    /\ ReturnedValues({7, 5})
    /\ \E S \in ValidSelections : { u.effective_value : u \in S } = {10, 3}

\* a loop of a solver is running
InBnBLoop == bnb_pc = "loop"
InApproximation == knap_pc \in {"approx1", "approx2"}

\* the search was ended by the count of its iterations
CapReached == bnb_pc \in {"true", "false"} /\ tries = TOTAL_TRIES

\* C21: the loop of SelectCoinsBnB never makes more than TOTAL_TRIES
\* iterations and that of ApproximateBestSubset never more than its number
\* of repetitions; every step of a loop is one more iteration or leaves the
\* loop, and a solver that has not returned can take a step, so that both
\* return.  A search that was ended by the count of its iterations has not
\* thrown, and has returned false when no selection within the range was
\* found and otherwise true with the best selection found, which is within
\* the range.
C21_BoundedTermination ==
    /\ [](/\ tries <= TOTAL_TRIES
          /\ nRep <= Iterations
          /\ bnb_pc # "throw"
          /\ (bnb_pc \in {"call", "loop", "end"} \/ knap_pc = "call")
                => ENABLED NextBounded
          /\ InApproximation
                => MoreRepetitions \/ ENABLED (ApproxAgain \/ KnapReturn)
          /\ CapReached =>
                IF best_selection = <<>>
                THEN bnb_pc = "false" /\ out_set = {}
                ELSE /\ bnb_pc = "true"
                     /\ out_set = { utxo_pool[i] : i \in Selected(best_selection) }
                     /\ actual_target <= EffectiveSum(out_set)
                     /\ EffectiveSum(out_set) <= actual_target + cost_of_change)
    /\ [][/\ InBnBLoop => (tries' = tries + 1 \/ ~InBnBLoop')
          /\ InApproximation =>
                (nRep' = nRep + 1 \/ ~InApproximation' \/ knap_pc' # knap_pc)]_vars

C21_Witness ==
    /\ CapReached
    /\ bnb_pc = "true"
    /\ Cardinality(out_set) > 2

\* the next iteration of the loop moves forward
MovesForward == bnb_pc = "loop" /\ MoreTries /\ ~MustBacktrack /\ ~InRange

\* the unit at depth follows a unit that is not selected and has the same
\* effective value and the same fee
FollowsItsEqual ==
    /\ depth > 0
    /\ curr_selection[depth] = FALSE
    /\ utxo_pool[depth + 1].effective_value = utxo_pool[depth].effective_value
    /\ utxo_pool[depth + 1].fee = utxo_pool[depth].fee

\* C29: an iteration that moves forward leaves the unit at depth out if and
\* only if depth > 0 and the unit at depth - 1 is not selected and has the
\* same effective_value and the same fee; it then takes the unit's
\* effective value off curr_available_value and leaves curr_value and
\* curr_waste as they are, and selects the unit otherwise.
C29_EquivalencePruning ==
    [][(MovesForward /\ tries' # tries) =>
          /\ depth' = depth + 1
          /\ curr_available_value' =
                 curr_available_value - utxo_pool[depth + 1].effective_value
          /\ \A i \in 1..depth : curr_selection'[i] = curr_selection[i]
          /\ IF FollowsItsEqual
             THEN /\ curr_selection'[depth + 1] = FALSE
                  /\ curr_value' = curr_value
                  /\ curr_waste' = curr_waste
             ELSE /\ curr_selection'[depth + 1] = TRUE
                  /\ curr_value' = curr_value + utxo_pool[depth + 1].effective_value]_vars

\* the first unit was selected and then left out, the second has the same
\* effective value and the same fee and was left out in its turn, and the
\* third has the effective value of the second, another fee, and is selected
C29_Witness ==
    /\ bnb_pc = "loop" /\ depth = 3
    /\ curr_selection = <<FALSE, FALSE, TRUE>>
    /\ utxo_pool[1].effective_value = utxo_pool[2].effective_value
    /\ utxo_pool[1].fee = utxo_pool[2].fee
    /\ utxo_pool[3].effective_value = utxo_pool[2].effective_value
    /\ utxo_pool[3].fee # utxo_pool[2].fee

\* the units of the pool that the current selection holds, and those at the
\* indices from depth on
CurrentUnits == { utxo_pool[i] : i \in Selected(curr_selection) }
UnitsAhead == { utxo_pool[i] : i \in (depth + 1)..Len(utxo_pool) }

\* C30: at the start of every iteration of the loop, curr_value is the sum
\* of the effective values of the selected units, curr_waste the sum of
\* their fee - long_term_fee, curr_available_value the sum of the effective
\* values of the units at the indices from depth on, and none of these
\* units is selected.
C30_LoopInvariant ==
    bnb_pc = "loop" =>
        /\ curr_value = EffectiveSum(CurrentUnits)
        /\ curr_waste = WasteSum(CurrentUnits)
        /\ curr_available_value = EffectiveSum(UnitsAhead)
        /\ \A i \in (depth + 1)..Len(utxo_pool) : ~curr_selection[i]

\* an iteration starts after a backtrack that walked back over a unit: a
\* unit is selected, one before depth is not, one lies ahead
C30_Witness ==
    /\ bnb_pc = "loop" /\ tries > 3
    /\ Len(utxo_pool) = 3 /\ depth = 2
    /\ curr_selection = <<FALSE, TRUE, FALSE>>
    /\ curr_waste # 0 /\ curr_available_value > 0

\* the iteration that starts moves forward (lines 119-141)
ForwardStep == bnb_pc = "loop" /\ MoreTries /\ ~MustBacktrack /\ ~InRange

\* C31: every forward step of the search is made with 0 <= depth < size of
\* the pool, on a unit of positive effective value, with a flag for every
\* unit, so that no .at() of lines 121-138 throws; an iteration that starts
\* with depth at the size of the pool backtracks.
C31_ForwardInPool ==
    /\ bnb_pc # "throw"
    /\ bnb_pc = "loop" =>
          /\ Len(curr_selection) = Len(utxo_pool)
          /\ 0 <= depth /\ depth <= Len(utxo_pool)
          /\ (MoreTries /\ depth = Len(utxo_pool)) => (MustBacktrack \/ InRange)
    /\ ForwardStep =>
          /\ depth < Len(utxo_pool)
          /\ At(utxo_pool, depth).effective_value > 0

\* forward steps went through the whole pool: the iteration that starts has
\* depth at the size of the pool, once with the target made exactly and once
\* with the range left behind
C31_Witness ==
    /\ bnb_pc = "loop" /\ MoreTries
    /\ Len(utxo_pool) >= 2 /\ depth = Len(utxo_pool)
    /\ At(curr_selection, depth - 1)
    /\ curr_value = actual_target
    /\ best_selection # <<>> /\ best_selection # curr_selection

-----------------------------------------------------------------------------
(* Properties of KnapsackSolver                                            *)

RECURSIVE ValueSum(_)
ValueSum(S) ==
    IF S = {} THEN 0
    ELSE LET u == CHOOSE x \in S : TRUE IN u.nValue + ValueSum(S \ {u})

\* C5: when KnapsackSolver returns true, value_ret is the sum of the nValue
\* of the returned coins and is at least nTargetValue, whatever the shuffle
\* and the coin flips were.
C5_KnapsackSufficient ==
    knap_pc = "true" =>
        /\ value_ret = ValueSum(out_set)
        /\ value_ret >= nTargetValue
        /\ out_set \subseteq CoinsOf(utxo_pool)

C5_Witness ==
    /\ knap_pc = "true"
    /\ approxTarget = nTargetValue + MIN_CHANGE
    /\ nRep > 0
    /\ Cardinality(out_set) >= 2
    /\ value_ret > nTargetValue

\* C18: once KnapsackSolver is past its scan of a pool that has a coin worth
\* nTargetValue, it has returned true with one coin of the pool, worth
\* nTargetValue, and with value_ret = nTargetValue, whatever the shuffle was.
C18_KnapsackExact ==
    (/\ knap_pc \notin {"idle", "call"}
     /\ \E c \in CoinsOf(utxo_pool) : c.nValue = nTargetValue)
        => /\ knap_pc = "true"
           /\ \E c \in CoinsOf(utxo_pool) : c.nValue = nTargetValue /\ out_set = {c}
           /\ value_ret = nTargetValue

C18_Witness ==
    /\ knap_pc = "true"
    /\ Len(utxo_pool) = MaxCoins
    /\ utxo_pool[MaxCoins].nValue = nTargetValue
    /\ utxo_pool[1].nValue > nTargetValue + MIN_CHANGE
    /\ utxo_pool[2].nValue < nTargetValue
    /\ out_set = {utxo_pool[MaxCoins]}

\* the coins of the pool worth less than nTargetValue + MIN_CHANGE, and the
\* others
LesserCoins == { c \in CoinsOf(utxo_pool) : c.nValue < nTargetValue + MIN_CHANGE }
LargerCoins == CoinsOf(utxo_pool) \ LesserCoins
NoExactCoin == \A c \in CoinsOf(utxo_pool) : c.nValue # nTargetValue

\* C19: once KnapsackSolver is past its scan of a pool that has no coin worth
\* nTargetValue: when the coins below nTargetValue + MIN_CHANGE are worth
\* nTargetValue together, it has returned true with exactly those coins; when
\* they are worth less, it has returned true with one coin of the least value
\* among the others if there is one, and false if there is none.
C19_KnapsackPrescan ==
    (knap_pc \notin {"idle", "call"} /\ NoExactCoin)
        => /\ ValueSum(LesserCoins) = nTargetValue
                => /\ knap_pc = "true"
                   /\ out_set = LesserCoins
                   /\ value_ret = nTargetValue
           /\ (ValueSum(LesserCoins) < nTargetValue /\ LargerCoins = {})
                => knap_pc = "false" /\ out_set = {}
           /\ (ValueSum(LesserCoins) < nTargetValue /\ LargerCoins # {})
                => /\ knap_pc = "true"
                   /\ \E c \in LargerCoins :
                         /\ \A d \in LargerCoins : c.nValue <= d.nValue
                         /\ out_set = {c}
                         /\ value_ret = c.nValue

C19_Witness ==
    /\ knap_pc = "true"
    /\ NoExactCoin
    /\ ValueSum(LesserCoins) < nTargetValue
    /\ LesserCoins # {}
    /\ \E c, d \in LargerCoins : c.nValue < d.nValue /\ out_set = {c}
    /\ utxo_pool[1].nValue > utxo_pool[2].nValue

\* KnapsackSolver has returned after its calls of ApproximateBestSubset
ReturnedAfterApproximation == knap_pc = "true" /\ approxTarget # 0

RECURSIVE PassEnding(_, _, _, _, _)
PassEnding(t, i, nPass, flips, target) ==
    IF i > Len(vValue) \/ t.fReachedTarget THEN t
    ELSE PassEnding(TryCoin(t, i, nPass, flips, target), i + 1, nPass, flips, target)

\* a trial that ends when its running total first reaches the target
TrialEnding(flips, target) ==
    LET t0 == [nTotal |-> 0, vfIncluded |-> [i \in 1..Len(vValue) |-> FALSE],
               fReachedTarget |-> FALSE, nBest |-> nBest, vfBest |-> vfBest]
        t1 == PassEnding(t0, 1, 0, flips, target)
    IN  IF t1.fReachedTarget THEN t1 ELSE PassEnding(t1, 1, 1, flips, target)

\* the trial of these coin flips leaves another best than a trial that ends
\* with the first total that reaches the target
GoesOnAfterReaching(flips) ==
    LET t == Repetition(flips, approxTarget)
        e == TrialEnding(flips, approxTarget)
    IN  t.nBest # e.nBest \/ t.vfBest # e.vfBest

\* the values of the coins of vValue that vf flags, together
FlaggedTotal(vf) ==
    SumSeq([i \in 1..Len(vValue) |-> IF vf[i] THEN vValue[i].nValue ELSE 0])

\* C32 as stated: a trial ends when its running total first reaches the
\* target, no coin is examined after that; whatever the coin flips, the
\* trial leaves the best that the trial ending there leaves.
C32_AsStated ==
    (InApproximation /\ MoreRepetitions) =>
        \A flips \in [1..Len(vValue) -> BOOLEAN] : ~GoesOnAfterReaching(flips)

\* C32: within one call of ApproximateBestSubset nBest never increases and
\* is always the sum of the values flagged in vfBest; a trial replaces the
\* best only by a total that reached the target and is strictly smaller than
\* the best before.  (The coin with which a total reaches the target is
\* taken out again and the pass goes on with the coins after it, so a trial
\* may reach the target more than once; only a second pass is not made.)
C32_TrialBest ==
    /\ [](InApproximation =>
            /\ Len(vfBest) = Len(vValue)
            /\ nBest = FlaggedTotal(vfBest))
    /\ [][(InApproximation /\ knap_pc' = knap_pc) =>
            /\ nBest' <= nBest
            /\ (vfBest' # vfBest) => (nBest' < nBest)
            /\ (nBest' < nBest) => (nBest' >= approxTarget)]_vars

\* a trial has replaced the best, and the next may reach the target with
\* one coin, take it out and reach it again with the coins after it
C32_Witness ==
    /\ InApproximation /\ MoreRepetitions
    /\ nRep >= 1 /\ nBest < nTotalLower
    /\ \E flips \in [1..Len(vValue) -> BOOLEAN] :
          /\ GoesOnAfterReaching(flips)
          /\ Repetition(flips, approxTarget).nBest < nBest

\* C36: KnapsackSolver returns true when the values of the coins of the
\* pool together are at least nTargetValue and false when they are less;
\* when it returns false, out_set is empty and value_ret is 0.
C36_SuccessIffFunds ==
    /\ knap_pc = "true" => ValueTotal(utxo_pool) >= nTargetValue
    /\ knap_pc = "false" =>
          /\ ValueTotal(utxo_pool) < nTargetValue
          /\ out_set = {} /\ value_ret = 0

\* the solver has returned false for a pool of several coins
C36_Witness ==
    /\ knap_pc = "false"
    /\ Len(utxo_pool) >= 2 /\ ValueTotal(utxo_pool) = nTargetValue - 1

\* the outpoints of the units of the pool are different from one another
DistinctOutpoints ==
    \A i, j \in 1..Len(utxo_pool) :
        i # j => utxo_pool[i].outpoint # utxo_pool[j].outpoint

\* C22: when SelectCoinsBnB returns true for a pool of units with different
\* outpoints, out_set is the set of the units that best_selection flags, one
\* coin for each flag, and value_ret is the sum of nValue over out_set; when
\* KnapsackSolver returns true, value_ret is the sum of nValue over out_set
\* and out_set, when taken from vfBest, is the set of the coins it flags.
C22_ValueRet ==
    DistinctOutpoints =>
        /\ bnb_pc = "true" =>
              /\ out_set = { utxo_pool[i] : i \in { j \in 1..Len(utxo_pool) : best_selection[j] } }
              /\ Cardinality(out_set)
                    = Cardinality({ j \in 1..Len(utxo_pool) : best_selection[j] })
              /\ value_ret = ValueSum(out_set)
        /\ knap_pc = "true" =>
              /\ value_ret = ValueSum(out_set)
              /\ (ReturnedAfterApproximation /\ ~TakeLowestLarger)
                    => out_set = { vValue[i] : i \in { j \in 1..Len(vValue) : vfBest[j] } }

C22_Witness ==
    /\ bnb_pc = "true"
    /\ DistinctOutpoints
    /\ Cardinality(out_set) = 2
    /\ value_ret = ValueSum(out_set)
    /\ value_ret > EffectiveSum(out_set)

\* how many times the unit u is in the pool v
Count(u, v) == Cardinality({ i \in 1..Len(v) : v[i] = u })

\* the pools v and w hold the same units, each as many times
SameCoins(v, w) ==
    /\ Len(v) = Len(w)
    /\ \A u \in CoinsOf(v) \cup CoinsOf(w) : Count(u, v) = Count(u, w)

\* C23: no step of SelectCoinsBnB or KnapsackSolver changes which units the
\* pool holds or any field of a unit, so that the pool after the call is the
\* pool before it in another order; and once SelectCoinsBnB is past the test
\* of the pool's total against actual_target, no unit of the pool comes
\* before a unit of a greater effective value.
C23_PoolFrame ==
    /\ [][SameCoins(utxo_pool, utxo_pool')]_vars
    /\ []((bnb_pc \notin {"idle", "call"} /\ EffectiveTotal(utxo_pool) >= actual_target)
             => IsSortedBy(utxo_pool))

C23_Witness ==
    /\ bnb_pc = "true"
    /\ Len(utxo_pool) = MaxPool
    /\ utxo_pool[1].effective_value > utxo_pool[MaxPool].effective_value
    /\ utxo_pool[1].outpoint > utxo_pool[2].outpoint
    /\ IsSortedBy(utxo_pool)

-----------------------------------------------------------------------------
(* Properties of the database environments                                 *)

\* C26: the pointer GetWalletEnv returns is never empty, whatever the other
\* threads do between the release of the last shared_ptr of an environment
\* and the end of its destructor
C26_NeverEmpty == \A t \in DbThreads : db_pc[t] = "env" => db_local[t].env # 0

\* the databases the next statement of thread t closes: it is a CloseDb call
\* of Flush, Rewrite, Backup, PeriodicFlush or ReloadDbEnv, or the loop of
\* BerkeleyEnvironment::Close
AboutToClose(t) ==
    LET l == db_local[t] IN
       CASE db_pc[t] = "flush_closedb" /\ l.nRefCount = 0 -> {First(l.filenames)}
         [] db_pc[t] \in {"rewrite_closedb", "backup_closedb", "periodic_closedb"} -> {l.db}
         [] db_pc[t] = "reload_closedb" /\ l.filenames # {} -> {First(l.filenames)}
         [] db_pc[t] \in {"reload_close", "env_dtor"} /\ fDbEnvInit[l.env] -> m_databases[l.env]
         [] OTHER -> {}

\* C27: every CloseDb call of ReloadDbEnv, Rewrite, Backup, Flush and
\* PeriodicFlush, and BerkeleyEnvironment::Close on every database it goes
\* through, finds m_refcount == 0
C27_NeverClosedInUse ==
    \A t \in DbThreads : \A d \in AboutToClose(t) : m_refcount[d] = 0

\* C37: the step with which Rewrite leaves its copy (to return, or to
\* Release and Close and then return) leaves m_refcount of its database at
\* 0, the value Rewrite found when it began.
C37_RewriteBalanced ==
    [][\A t \in DbThreads :
          (db_pc[t] = "rewrite_copy" /\ db_pc'[t] # "rewrite_copy")
             => m_refcount'[db_local[t].db] = 0]_vars

\* C38: as long as a shared pointer to an environment of the directory is
\* held, by a database or by a caller of GetWalletEnv, g_dbenvs maps the
\* directory to that environment, so that GetWalletEnv returns it and there
\* is no second environment of the directory.
C38_OneEnvironment ==
    /\ \A e \in Envs : use_count[e] > 0 => g_dbenvs = e
    /\ Cardinality({ e \in Envs : use_count[e] > 0 }) <= 1

\* thread t makes the step of a call of TxnBegin, TxnCommit or TxnAbort
TxnCall(t) == db_pc[t] = "idle" /\ db_pc'[t] = "txn_ret"

\* C39: m_active_txn is set only while a transaction is active, one for each
\* database at most.  TxnBegin returns false and leaves it as it is when a
\* transaction is active or the handle is closed, and a TxnBegin that returns
\* true has begun one when none was active; TxnCommit and TxnAbort return
\* false and change nothing when no transaction is active, and leave none
\* active when they acted on one.
C39_TxnStateMachine ==
    /\ [](\A d \in Dbs : m_active_txn[d] # "aborted")
    /\ [][\A t \in DbThreads : TxnCall(t) =>
            LET d == db_local'[t].db
                ret == db_local'[t].ret
            IN  /\ db_local'[t].caller = "TxnBegin" =>
                      /\ (m_active_txn[d] = "active" \/ ~m_db[d])
                            => (~ret /\ m_active_txn'[d] = m_active_txn[d])
                      /\ ret => (m_active_txn[d] # "active" /\ m_active_txn'[d] = "active")
                      /\ ~ret => m_active_txn'[d] = m_active_txn[d]
                /\ db_local'[t].caller \in {"TxnCommit", "TxnAbort"} =>
                      /\ (m_active_txn[d] # "active")
                            => (~ret /\ m_active_txn'[d] = m_active_txn[d])
                      /\ (m_active_txn[d] = "active" /\ m_db[d])
                            => m_active_txn'[d] = "null"]_vars

=============================================================================
